---- MODULE Spec2Model ----
(***************************************************************************)
(* Duplicate detection of the music library manager                        *)
(* (src/core/duplicate_detector.py, class DuplicateDetector), and the main *)
(* window that hands it the library (src/gui/main_window.py).              *)
(*                                                                         *)
(* A file record is a Python dict: here a TLA+ function from key names to  *)
(* values whose DOMAIN may lack keys, read through Get as dict.get does.   *)
(* Text values are sequences of one-character strings, so that strip(),    *)
(* lower() and the SequenceMatcher ratio are computed, not assumed.        *)
(* Durations are counted in half seconds (a duration d stands for d/2 s),  *)
(* so that round() meets exact halves.                                     *)
(***************************************************************************)
EXTENDS Integers, Sequences, FiniteSets, TLC

VARIABLES
    files,       \* the FileRecord list handed to a detection call
    files2,      \* the same records in another order, handed to a second call
    tolerance,   \* DuplicateDetector.tolerance as <<numerator, denominator>>
    self_duplicate_groups,  \* DuplicateDetector.duplicate_groups
    fields,      \* compare_fields of the last find_duplicates_by_metadata call
    flags,       \* <<use_metadata, use_hash, use_size>> of the last combined call
    groups,      \* the group list handed to _merge_duplicate_groups
    result,      \* what the last call returned
    result2,     \* what _merge_duplicate_groups returned on its own output
    op,          \* the last operation called
    group_arg,   \* the duplicate_group handed to filter_duplicates_by_quality
    keep_arg,    \* keep_highest / keep_highest_quality of the last ranking call
    string1,     \* first argument of calculate_similarity
    string2,     \* second argument of calculate_similarity
    raised,      \* TRUE when the last call raised TypeError instead of returning
    \* _merge_duplicate_groups run loop by loop
    pc,              \* where the run is: "idle", "outer", "inner" or "done"
    loop_id_groups,  \* id_groups
    loop_current,    \* current
    loop_merged_any, \* merged_any
    loop_merged,     \* merged
    \* MainWindow (src/gui/main_window.py) and its store
    heap,            \* the list objects: heap[ref] is what list ref holds now
    all_files,       \* self.all_files: the ref of the list it is bound to
    store,           \* the rows of music_files
    scan_btn,        \* state of the scan button: "normal" or "disabled"
    scan_pc,         \* where scan_thread is
    scans,           \* how many scans were started
    metadata_list,   \* the ref of scan_thread's metadata_list, 0 when it has none
    pending,         \* paths whose read_metadata future is not done
    completed,       \* done futures not yet taken by as_completed: path -> result
    after_queue,     \* callbacks scheduled with self.after, oldest first
    detect_pc,       \* "idle", or "running" while _on_find_duplicates computes
    detect_list      \* the ref of the list _on_find_duplicates handed over

\* the arguments of the ranking calls and of the similarity call
rank_args == <<group_arg, keep_arg>>
sim_args == <<string1, string2>>

\* the detector's own attributes
detector_state == <<tolerance, self_duplicate_groups>>

\* the locals of _merge_duplicate_groups
merge_loop == <<pc, loop_id_groups, loop_current, loop_merged_any, loop_merged>>

\* the main window, its scan thread and the store
scan_state == <<scan_btn, scan_pc, scans, metadata_list, pending, completed, after_queue>>
window == <<heap, all_files, store, scan_state, detect_pc, detect_list>>

vars == <<files, files2, detector_state, fields, flags, groups, result, result2, op, rank_args,
          sim_args, raised, merge_loop, window>>

(***************************************************************************)
(* Bounds of the model.                                                    *)
(***************************************************************************)
MaxGroups == 3       \* input groups per merger call
NumIds == 4          \* identified records in the merger's record pool
MaxFiles == 3        \* records per detection call
MaxHashFiles == 4    \* records per detection call when only file_hash varies
MaxGroupSize == 3    \* records of a group ranked alone
MaxPairedSize == 2   \* records of each group of a list of two groups
MaxNullFiles == 2    \* records per detection call when fields may be None
MaxLen == 3          \* characters of an argument of calculate_similarity
MaxOrderFiles == 3   \* records handed to find_duplicates_by_metadata in two orders
MaxLoopGroups == 3   \* input groups of a merger run followed loop by loop
NumLoopIds == 4      \* identified records of those groups
MaxDiskFiles == 2    \* music files in the folder that is scanned
MaxScans == 1        \* scans started

(***************************************************************************)
(* Python helpers.                                                         *)
(***************************************************************************)
\* a dict without keys
Empty == [k \in {} |-> 0]

\* dict.get(key) of an absent 'id' is None; None and 0 are both falsy, and the
\* store numbers records from 1, so None is written 0.
NoneId == 0

Get(r, k, default) == IF k \in DOMAIN r THEN r[k] ELSE default

GetId(r) == Get(r, "id", NoneId)

\* None in a numeric field (file_size, duration, bitrate), a NULL of the store;
\* the numbers of these fields are never negative
None == -1

Range(s) == { s[k] : k \in 1..Len(s) }

RECURSIVE Flatten(_)
Flatten(ss) == IF ss = <<>> THEN <<>> ELSE Head(ss) \o Flatten(Tail(ss))

Contains(s, x) == \E k \in 1..Len(s) : s[k] = x

(***************************************************************************)
(* _merge_duplicate_groups, lines 221-279.                                 *)
(***************************************************************************)
\* line 240: the set of truthy ids of one group
group_ids(group) == { GetId(group[k]) : k \in 1..Len(group) } \ {NoneId}

\* lines 238-242: one id set per group, empty sets left out
RECURSIVE id_groups_of(_)
id_groups_of(gs) ==
    IF gs = <<>> THEN <<>>
    ELSE LET ids == group_ids(Head(gs))
         IN  (IF ids # {} THEN <<ids>> ELSE <<>>) \o id_groups_of(Tail(gs))

\* A pass that leaves a set it has merged in the list of remaining sets.
RECURSIVE merge_pass_keeping(_, _, _, _)
merge_pass_keeping(current, id_groups, remaining, merged_any) ==
    IF id_groups = <<>> THEN <<current, remaining, merged_any>>
    ELSE LET other == Head(id_groups)
         IN  IF current \cap other # {}
             THEN merge_pass_keeping(current \cup other, Tail(id_groups),
                                     Append(remaining, other), TRUE)
             ELSE merge_pass_keeping(current, Tail(id_groups),
                                     Append(remaining, other), merged_any)

\* lines 251-261: one pass of the for loop over id_groups; current grows while
\* the pass runs.  Returns <<current, remaining, merged_any>>.
RECURSIVE merge_pass(_, _, _, _)
merge_pass(current, id_groups, remaining, merged_any) ==
    IF id_groups = <<>> THEN <<current, remaining, merged_any>>
    ELSE LET other == Head(id_groups)
         IN  IF current \cap other # {}
             THEN merge_pass(current \cup other, Tail(id_groups), remaining, TRUE)
             ELSE merge_pass(current, Tail(id_groups), Append(remaining, other), merged_any)

\* A merger that scans the remaining sets once only, instead of until no pass merges.
absorb_once(current, id_groups) ==
    LET p == merge_pass(current, id_groups, <<>>, FALSE)
    IN  <<p[1], p[2]>>

\* lines 248-261: while merged_any: repeat the pass.  Returns <<current, id_groups>>.
RECURSIVE absorb(_, _)
absorb(current, id_groups) ==
    LET p == merge_pass(current, id_groups, <<>>, FALSE)
    IN  IF p[3] THEN absorb(p[1], p[2]) ELSE <<p[1], p[2]>>

\* lines 245-263: while id_groups: pop(0), absorb, append to merged
RECURSIVE merge_sets(_, _)
merge_sets(id_groups, merged) ==
    IF id_groups = <<>> THEN merged
    ELSE LET a == absorb(Head(id_groups), Tail(id_groups))
         IN  merge_sets(a[2], Append(merged, a[1]))

\* A collection that takes a record each time an input group holds it.
RECURSIVE collect_with_repeats(_, _, _)
collect_with_repeats(id_set, records, group) ==
    IF records = <<>> THEN group
    ELSE LET file_data == Head(records)
         IN  IF GetId(file_data) \in id_set
             THEN collect_with_repeats(id_set, Tail(records), Append(group, file_data))
             ELSE collect_with_repeats(id_set, Tail(records), group)

\* lines 269-274: the records of all input groups whose id is in id_set, each once
RECURSIVE collect(_, _, _)
collect(id_set, records, group) ==
    IF records = <<>> THEN group
    ELSE LET file_data == Head(records)
         IN  IF GetId(file_data) \in id_set /\ ~Contains(group, file_data)
             THEN collect(id_set, Tail(records), Append(group, file_data))
             ELSE collect(id_set, Tail(records), group)

\* A rehydration that keeps a group only when it has more than two records.
RECURSIVE rehydrate_more_than_two(_, _)
rehydrate_more_than_two(merged, gs) ==
    IF merged = <<>> THEN <<>>
    ELSE LET group == collect(Head(merged), Flatten(gs), <<>>)
         IN  (IF Len(group) > 2 THEN <<group>> ELSE <<>>)
                 \o rehydrate_more_than_two(Tail(merged), gs)

\* lines 266-279: one group per merged id set, kept when it has more than one record
RECURSIVE rehydrate(_, _)
rehydrate(merged, gs) ==
    IF merged = <<>> THEN <<>>
    ELSE LET group == collect(Head(merged), Flatten(gs), <<>>)
         IN  (IF Len(group) > 1 THEN <<group>> ELSE <<>>) \o rehydrate(Tail(merged), gs)

merge_duplicate_groups(gs) ==
    IF gs = <<>> THEN <<>>
    ELSE rehydrate(merge_sets(id_groups_of(gs), <<>>), gs)

(***************************************************************************)
(* Text: str.strip(), str.lower() and difflib.SequenceMatcher.ratio().     *)
(* A text is a sequence of one-character strings.                          *)
(***************************************************************************)
IsSpace(c) == c = " "

\* the lower-case letter of every upper-case letter
LowerCaseOf ==
    [A |-> "a", B |-> "b", C |-> "c", D |-> "d", E |-> "e", F |-> "f", G |-> "g",
     H |-> "h", I |-> "i", J |-> "j", K |-> "k", L |-> "l", M |-> "m", N |-> "n",
     O |-> "o", P |-> "p", Q |-> "q", R |-> "r", S |-> "s", T |-> "t", U |-> "u",
     V |-> "v", W |-> "w", X |-> "x", Y |-> "y", Z |-> "z"]

LowerChar(c) == IF c \in DOMAIN LowerCaseOf THEN LowerCaseOf[c] ELSE c

lower(s) == [k \in 1..Len(s) |-> LowerChar(s[k])]

RECURSIVE lstrip(_)
lstrip(s) == IF s # <<>> /\ IsSpace(Head(s)) THEN lstrip(Tail(s)) ELSE s

RECURSIVE rstrip(_)
rstrip(s) ==
    IF s # <<>> /\ IsSpace(s[Len(s)]) THEN rstrip(SubSeq(s, 1, Len(s) - 1)) ELSE s

strip(s) == rstrip(lstrip(s))

Min2(x, y) == IF x <= y THEN x ELSE y

\* a[i .. i+k-1] = b[j .. j+k-1]
BlockAt(a, b, i, j, k) == \A d \in 0..(k - 1) : a[i + d] = b[j + d]

\* SequenceMatcher.find_longest_match on a[alo..ahi], b[blo..bhi] (no junk: isjunk
\* is None and autojunk needs 200 elements): the longest common block, of those
\* the one starting earliest in a, of those the one starting earliest in b.
\* Returns <<i, j, k>>, k = 0 when nothing matches.
find_longest_match(a, b, alo, ahi, blo, bhi) ==
    LET Blocks == { t \in (alo..ahi) \X (blo..bhi) \X (1..Min2(ahi - alo + 1, bhi - blo + 1)) :
                        /\ t[1] + t[3] - 1 <= ahi
                        /\ t[2] + t[3] - 1 <= bhi
                        /\ BlockAt(a, b, t[1], t[2], t[3]) }
    IN  IF Blocks = {} THEN <<alo, blo, 0>>
        ELSE CHOOSE t \in Blocks :
                \A u \in Blocks :
                    \/ u[3] < t[3]
                    \/ (u[3] = t[3] /\ u[1] > t[1])
                    \/ (u[3] = t[3] /\ u[1] = t[1] /\ u[2] >= t[2])

\* SequenceMatcher.get_matching_blocks: the sizes of the longest block and of the
\* blocks found the same way to its left and to its right, added up.
RECURSIVE matches(_, _, _, _, _, _)
matches(a, b, alo, ahi, blo, bhi) ==
    IF alo > ahi \/ blo > bhi THEN 0
    ELSE LET m == find_longest_match(a, b, alo, ahi, blo, bhi)
         IN  IF m[3] = 0 THEN 0
             ELSE m[3] + matches(a, b, alo, m[1] - 1, blo, m[2] - 1)
                       + matches(a, b, m[1] + m[3], ahi, m[2] + m[3], bhi)

\* SequenceMatcher.ratio(): 2.0 * matches / (len(a) + len(b)), 1.0 for two empty
\* sequences; the float is kept as the fraction <<numerator, denominator>>.
ratio(a, b) ==
    IF Len(a) + Len(b) = 0 THEN <<1, 1>>
    ELSE <<2 * matches(a, b, 1, Len(a), 1, Len(b)), Len(a) + Len(b)>>

\* x < y for fractions with positive denominators
FracLess(x, y) == x[1] * y[2] < y[1] * x[2]

(***************************************************************************)
(* calculate_similarity, lines 24-39.                                      *)
(***************************************************************************)
\* None handed in place of a string: no text, as a text is a sequence of
\* one-character strings
NoneText == <<"None">>

\* A similarity that compares the strings as they are, without lower().
calculate_similarity_case_sensitive(str1, str2) ==
    IF str1 \in {<<>>, NoneText} \/ str2 \in {<<>>, NoneText} THEN <<0, 1>>
    ELSE ratio(str1, str2)

\* line 36: not str1 holds for None and for ''
calculate_similarity(str1, str2) ==
    IF str1 \in {<<>>, NoneText} \/ str2 \in {<<>>, NoneText} THEN <<0, 1>>
    ELSE ratio(lower(str1), lower(str2))

(***************************************************************************)
(* find_duplicates_by_metadata, lines 41-107.                              *)
(***************************************************************************)
\* line 14: tolerance: float = 0.9
DefaultTolerance == <<9, 10>>

\* line 57
DefaultCompareFields == <<"artist", "title", "album">>

\* line 95: 5 second tolerance
DurationTolerance == 5

\* text fields hold str values, and str() of a str is that str
str(v) == v

Abs(x) == IF x < 0 THEN -x ELSE x

\* lines 84-86: similarity < self.tolerance
field_differs(val1, val2) ==
    FracLess(calculate_similarity(val1, val2), tolerance)

\* A field loop that compares the first configured field only.
fields_match_first_only(file1, file2, compare_fields) ==
    IF compare_fields = <<>> THEN TRUE
    ELSE LET field == Head(compare_fields)
             val1 == lower(strip(str(Get(file1, field, <<>>))))
             val2 == lower(strip(str(Get(file2, field, <<>>))))
         IN  val1 # <<>> /\ val2 # <<>> /\ ~field_differs(val1, val2)

\* lines 73-88: every field non-empty after strip() and similar enough; the loop
\* breaks at the first field that is not
RECURSIVE fields_match(_, _, _)
fields_match(file1, file2, compare_fields) ==
    IF compare_fields = <<>> THEN TRUE
    ELSE LET field == Head(compare_fields)
             val1 == lower(strip(str(Get(file1, field, <<>>))))
             val2 == lower(strip(str(Get(file2, field, <<>>))))
         IN  IF val1 = <<>> \/ val2 = <<>> THEN FALSE
             ELSE IF field_differs(val1, val2) THEN FALSE
             ELSE fields_match(file1, file2, Tail(compare_fields))

\* A duration test that rejects a difference of exactly 5 seconds.
duration_match_below_five(file1, file2) ==
    IF "duration" \in DOMAIN file1 /\ "duration" \in DOMAIN file2
    THEN Abs(Get(file1, "duration", 0) - Get(file2, "duration", 0)) < 2 * DurationTolerance
    ELSE TRUE

\* lines 91-96: when both records have a duration, it differs by at most 5 s
\* (durations are in half seconds)
duration_match(file1, file2) ==
    IF "duration" \in DOMAIN file1 /\ "duration" \in DOMAIN file2
    THEN ~(Abs(Get(file1, "duration", 0) - Get(file2, "duration", 0)) > 2 * DurationTolerance)
    ELSE TRUE

\* line 95: duration1 - duration2 raises TypeError when one of them is None
duration_raises(file1, file2) ==
    /\ "duration" \in DOMAIN file1
    /\ "duration" \in DOMAIN file2
    /\ (file1["duration"] = None \/ file2["duration"] = None)

\* lines 73-98: is_duplicate after the field loop and the duration test
is_duplicate(file1, file2, compare_fields) ==
    fields_match(file1, file2, compare_fields) /\ duration_match(file1, file2)

\* An inner loop that does not mark a matched record as processed.
RECURSIVE scan_later_unmarked(_, _, _, _, _)
scan_later_unmarked(file1, later, compare_fields, duplicates, processed_ids) ==
    IF later = <<>> THEN <<duplicates, processed_ids, FALSE>>
    ELSE LET file2 == Head(later)
         IN  IF GetId(file2) \in processed_ids
             THEN scan_later_unmarked(file1, Tail(later), compare_fields, duplicates, processed_ids)
             ELSE IF duration_raises(file1, file2) /\ fields_match(file1, file2, compare_fields)
             THEN <<duplicates, processed_ids, TRUE>>
             ELSE IF is_duplicate(file1, file2, compare_fields)
             THEN scan_later_unmarked(file1, Tail(later), compare_fields,
                                      Append(duplicates, file2), processed_ids)
             ELSE scan_later_unmarked(file1, Tail(later), compare_fields, duplicates, processed_ids)

\* lines 68-100: the inner loop over files[i + 1:].
\* Returns <<duplicates, processed_ids, raised>>; raised when line 95 is reached
\* with a duration that is None.
RECURSIVE scan_later(_, _, _, _, _)
scan_later(file1, later, compare_fields, duplicates, processed_ids) ==
    IF later = <<>> THEN <<duplicates, processed_ids, FALSE>>
    ELSE LET file2 == Head(later)
         IN  IF GetId(file2) \in processed_ids
             THEN scan_later(file1, Tail(later), compare_fields, duplicates, processed_ids)
             ELSE IF duration_raises(file1, file2) /\ fields_match(file1, file2, compare_fields)
             THEN <<duplicates, processed_ids, TRUE>>
             ELSE IF is_duplicate(file1, file2, compare_fields)
             THEN scan_later(file1, Tail(later), compare_fields,
                             Append(duplicates, file2), processed_ids \cup {GetId(file2)})
             ELSE scan_later(file1, Tail(later), compare_fields, duplicates, processed_ids)

\* An outer loop that also returns the groups of one record.
RECURSIVE scan_files_keep_singletons(_, _, _, _, _)
scan_files_keep_singletons(file_list, i, compare_fields, processed_ids, duplicate_groups) ==
    IF i > Len(file_list) THEN <<duplicate_groups, FALSE>>
    ELSE LET file1 == file_list[i]
         IN  IF GetId(file1) \in processed_ids
             THEN scan_files_keep_singletons(file_list, i + 1, compare_fields, processed_ids,
                                             duplicate_groups)
             ELSE LET s == scan_later(file1, SubSeq(file_list, i + 1, Len(file_list)),
                                      compare_fields, <<file1>>, processed_ids)
                  IN  IF s[3] THEN <<duplicate_groups, TRUE>>
                      ELSE scan_files_keep_singletons(file_list, i + 1, compare_fields,
                                                      s[2] \cup {GetId(file1)},
                                                      Append(duplicate_groups, s[1]))

\* lines 62-105: the outer loop over enumerate(files).
\* Returns <<duplicate_groups, raised>>.
RECURSIVE scan_files(_, _, _, _, _)
scan_files(file_list, i, compare_fields, processed_ids, duplicate_groups) ==
    IF i > Len(file_list) THEN <<duplicate_groups, FALSE>>
    ELSE LET file1 == file_list[i]
         IN  IF GetId(file1) \in processed_ids
             THEN scan_files(file_list, i + 1, compare_fields, processed_ids, duplicate_groups)
             ELSE LET s == scan_later(file1, SubSeq(file_list, i + 1, Len(file_list)),
                                      compare_fields, <<file1>>, processed_ids)
                  IN  IF s[3] THEN <<duplicate_groups, TRUE>>
                      ELSE IF Len(s[1]) > 1
                      THEN scan_files(file_list, i + 1, compare_fields,
                                      s[2] \cup {GetId(file1)}, Append(duplicate_groups, s[1]))
                      ELSE scan_files(file_list, i + 1, compare_fields, s[2], duplicate_groups)

\* compare_fields is the list of fields compared; the callers that pass none
\* (lines 56-57) pass DefaultCompareFields
find_duplicates_by_metadata(file_list, compare_fields) ==
    scan_files(file_list, 1, compare_fields, {}, <<>>)[1]

\* the call ends in TypeError instead of returning: line 95 is reached with a
\* duration that is None (no list without such a duration gets there)
find_duplicates_by_metadata_raises(file_list, compare_fields) ==
    /\ \E k \in 1..Len(file_list) : Get(file_list[k], "duration", 0) = None
    /\ scan_files(file_list, 1, compare_fields, {}, <<>>)[2]

(***************************************************************************)
(* find_duplicates_by_hash, lines 109-142, and                             *)
(* find_duplicates_by_size_and_duration, lines 144-180.                    *)
(* A dict of lists is a sequence of <<key, list>> in insertion order.      *)
(***************************************************************************)
\* lines 131-134 and 169-172: dict[key].append(file_data), the key added when new
bucket_append(buckets, key, file_data) ==
    IF \E k \in 1..Len(buckets) : buckets[k][1] = key
    THEN [k \in 1..Len(buckets) |->
            IF buckets[k][1] = key
            THEN <<key, Append(buckets[k][2], file_data)>>
            ELSE buckets[k]]
    ELSE Append(buckets, <<key, <<file_data>>>>)

\* lines 137-140 and 175-178: the values of the dict that have more than one file
RECURSIVE more_than_one(_)
more_than_one(buckets) ==
    IF buckets = <<>> THEN <<>>
    ELSE (IF Len(Head(buckets)[2]) > 1 THEN <<Head(buckets)[2]>> ELSE <<>>)
             \o more_than_one(Tail(buckets))

\* A hash loop that does not skip the records without file_hash.
RECURSIVE hash_groups_unfiltered(_, _)
hash_groups_unfiltered(file_list, hash_groups) ==
    IF file_list = <<>> THEN hash_groups
    ELSE hash_groups_unfiltered(Tail(file_list),
             bucket_append(hash_groups, Get(Head(file_list), "file_hash", ""), Head(file_list)))

\* lines 123-134: file_hash None (key absent) and '' are both falsy and skipped
RECURSIVE hash_groups_of(_, _)
hash_groups_of(file_list, hash_groups) ==
    IF file_list = <<>> THEN hash_groups
    ELSE LET file_data == Head(file_list)
             file_hash == Get(file_data, "file_hash", "")
         IN  IF file_hash = ""
             THEN hash_groups_of(Tail(file_list), hash_groups)
             ELSE hash_groups_of(Tail(file_list), bucket_append(hash_groups, file_hash, file_data))

find_duplicates_by_hash(file_list) == more_than_one(hash_groups_of(file_list, <<>>))

\* A rounding that takes an exact half up.
round_half_up(d) == (d + 1) \div 2

\* line 165: round() of a duration in half seconds, to whole seconds; Python
\* rounds an exact half to the even neighbour
round(d) ==
    IF d % 2 = 0 THEN d \div 2
    ELSE IF (d \div 2) % 2 = 0 THEN d \div 2 ELSE (d \div 2) + 1

\* lines 158-172
RECURSIVE size_groups_of(_, _)
size_groups_of(file_list, size_groups) ==
    IF file_list = <<>> THEN size_groups
    ELSE LET file_data == Head(file_list)
             file_size == Get(file_data, "file_size", 0)
             duration == Get(file_data, "duration", 0)
             key == <<file_size, round(duration)>>
         IN  size_groups_of(Tail(file_list), bucket_append(size_groups, key, file_data))

find_duplicates_by_size_and_duration(file_list) ==
    more_than_one(size_groups_of(file_list, <<>>))

\* line 165: round(None) raises TypeError
find_duplicates_by_size_and_duration_raises(file_list) ==
    \E k \in 1..Len(file_list) : Get(file_list[k], "duration", 0) = None

(***************************************************************************)
(* find_duplicates_combined, lines 182-219.                                *)
(***************************************************************************)
\* lines 185-187: use_metadata = True, use_hash = True, use_size = False
DefaultFlags == <<TRUE, TRUE, FALSE>>

\* A combination that runs the size strategy whatever use_size says.
find_duplicates_combined_size_always(file_list, use_metadata, use_hash, use_size) ==
    merge_duplicate_groups(
        (IF use_metadata THEN find_duplicates_by_metadata(file_list, DefaultCompareFields)
         ELSE <<>>)
        \o (IF use_hash THEN find_duplicates_by_hash(file_list) ELSE <<>>)
        \o find_duplicates_by_size_and_duration(file_list))

find_duplicates_combined(file_list, use_metadata, use_hash, use_size) ==
    merge_duplicate_groups(
        (IF use_metadata THEN find_duplicates_by_metadata(file_list, DefaultCompareFields)
         ELSE <<>>)
        \o (IF use_hash THEN find_duplicates_by_hash(file_list) ELSE <<>>)
        \o (IF use_size THEN find_duplicates_by_size_and_duration(file_list) ELSE <<>>))

\* lines 204-214: the exception of a strategy that runs leaves the combined call
find_duplicates_combined_raises(file_list, use_metadata, use_hash, use_size) ==
    \/ use_metadata /\ find_duplicates_by_metadata_raises(file_list, DefaultCompareFields)
    \/ use_size /\ find_duplicates_by_size_and_duration_raises(file_list)

(***************************************************************************)
(* sorted(), as the ranking and the statistics use it.                     *)
(***************************************************************************)
\* k1 < k2 for two key tuples of one length, compared position by position
RECURSIVE key_less(_, _)
key_less(k1, k2) ==
    IF k1 = <<>> THEN FALSE
    ELSE IF Head(k1) # Head(k2) THEN Head(k1) < Head(k2)
    ELSE key_less(Tail(k1), Tail(k2))

\* the place of one keyed item in a sorted list: behind the items it does not
\* precede, so that items of equal key keep their order (sorted() is stable,
\* with reverse=True too)
RECURSIVE sorted_insert(_, _, _)
sorted_insert(acc, x, reverse) ==
    IF acc = <<>> THEN <<x>>
    ELSE IF (IF reverse THEN key_less(Head(acc)[1], x[1]) ELSE key_less(x[1], Head(acc)[1]))
         THEN <<x>> \o acc
         ELSE <<Head(acc)>> \o sorted_insert(Tail(acc), x, reverse)

RECURSIVE sorted_keyed(_, _, _)
sorted_keyed(keyed, acc, reverse) ==
    IF keyed = <<>> THEN acc
    ELSE sorted_keyed(Tail(keyed), sorted_insert(acc, Head(keyed), reverse), reverse)

\* sorted(items, key=..., reverse=...): keys[k] is the key of items[k]
sorted(items, keys, reverse) ==
    LET keyed == [k \in 1..Len(items) |-> <<keys[k], items[k]>>]
        s == sorted_keyed(keyed, <<>>, reverse)
    IN  [k \in 1..Len(s) |-> s[k][2]]

\* the first position where two key tuples differ holds None on one side: the
\* comparison of the two tuples raises TypeError
RECURSIVE key_compare_raises(_, _)
key_compare_raises(k1, k2) ==
    IF k1 = <<>> THEN FALSE
    ELSE IF Head(k1) # Head(k2) THEN Head(k1) = None \/ Head(k2) = None
    ELSE key_compare_raises(Tail(k1), Tail(k2))

\* sorted() of two items compares them once.  Lists that hold a None are ranked
\* in twos here: which keys of a longer list meet depends on the runs the sort
\* finds.
sorted_raises(keys) ==
    /\ Len(keys) = 2
    /\ key_compare_raises(keys[1], keys[2])

(***************************************************************************)
(* filter_duplicates_by_quality, lines 341-367, and                        *)
(* auto_select_duplicates_for_removal, lines 369-390.                      *)
(***************************************************************************)
\* A ranking key that puts file_size before bitrate.
quality_key_size_first(f) == <<Get(f, "file_size", 0), Get(f, "bitrate", 0)>>

\* line 362: key=lambda f: (f.get('bitrate', 0), f.get('file_size', 0))
quality_key(f) == <<Get(f, "bitrate", 0), Get(f, "file_size", 0)>>

quality_keys(duplicate_group) ==
    [k \in 1..Len(duplicate_group) |-> quality_key(duplicate_group[k])]

\* A sort in place, as list.sort() does: the list given is reordered.
argument_after_sort_in_place(items, keys, reverse) == sorted(items, keys, reverse)

\* lines 360 and 327: sorted() builds a new list; the list it was given holds
\* afterwards what it held before
argument_after_sorted(items, keys, reverse) == items

\* lines 356-364: the group handed to filter_duplicates_by_quality, after the call
group_after_filter(duplicate_group, keep_highest) ==
    IF duplicate_group = <<>> THEN duplicate_group
    ELSE argument_after_sorted(duplicate_group, quality_keys(duplicate_group), keep_highest)

\* A filter that sorts highest first whatever keep_highest says.
filter_always_highest(duplicate_group, keep_highest) ==
    IF duplicate_group = <<>> THEN << <<>>, <<>> >>
    ELSE LET sorted_files == sorted(duplicate_group, quality_keys(duplicate_group), TRUE)
         IN  << <<sorted_files[1]>>, Tail(sorted_files) >>

\* Returns <<files_to_keep, files_to_remove>>.
filter_duplicates_by_quality(duplicate_group, keep_highest) ==
    IF duplicate_group = <<>> THEN << <<>>, <<>> >>
    ELSE LET sorted_files == sorted(duplicate_group, quality_keys(duplicate_group), keep_highest)
         IN  << <<sorted_files[1]>>, Tail(sorted_files) >>

\* A filter that sorts and takes sorted_files[0] of an empty group too.
filter_raises_unguarded(duplicate_group) ==
    duplicate_group = <<>> \/ sorted_raises(quality_keys(duplicate_group))

\* lines 356-364: an empty group returns before the sort
filter_duplicates_by_quality_raises(duplicate_group) ==
    duplicate_group # <<>> /\ sorted_raises(quality_keys(duplicate_group))

\* A selection that puts every file of every group on the removal list.
RECURSIVE auto_select_whole_groups(_, _)
auto_select_whole_groups(duplicate_groups, keep_highest_quality) ==
    IF duplicate_groups = <<>> THEN <<>>
    ELSE LET f == filter_duplicates_by_quality(Head(duplicate_groups), keep_highest_quality)
         IN  f[1] \o f[2] \o auto_select_whole_groups(Tail(duplicate_groups),
                                                      keep_highest_quality)

\* lines 384-390: files_to_remove.extend(remove_files) for each group in turn
RECURSIVE auto_select_duplicates_for_removal(_, _)
auto_select_duplicates_for_removal(duplicate_groups, keep_highest_quality) ==
    IF duplicate_groups = <<>> THEN <<>>
    ELSE filter_duplicates_by_quality(Head(duplicate_groups), keep_highest_quality)[2]
             \o auto_select_duplicates_for_removal(Tail(duplicate_groups), keep_highest_quality)

auto_select_duplicates_for_removal_raises(duplicate_groups) ==
    \E k \in 1..Len(duplicate_groups) : filter_duplicates_by_quality_raises(duplicate_groups[k])

(***************************************************************************)
(* get_duplicate_statistics, lines 306-339.                                *)
(***************************************************************************)
RECURSIVE sum(_)
sum(numbers) == IF numbers = <<>> THEN 0 ELSE Head(numbers) + sum(Tail(numbers))

\* line 327: key=lambda f: f.get('file_size', 0)
size_keys(group) == [k \in 1..Len(group) |-> <<Get(group[k], "file_size", 0)>>]

\* lines 325-327: a group handed to get_duplicate_statistics, after the call
group_after_statistics(group) == argument_after_sorted(group, size_keys(group), TRUE)

\* The sizes of all files of a group but its first, the group left unsorted.
wasted_of_group_unsorted(group) ==
    sum([k \in 1..(Len(group) - 1) |-> Get(group[k + 1], "file_size", 0)])

\* lines 327-331: the sizes of all files of a group but the first of the group
\* sorted largest first
wasted_of_group(group) ==
    LET sorted_group == sorted(group, size_keys(group), TRUE)
    IN  sum([k \in 1..(Len(sorted_group) - 1) |-> Get(sorted_group[k + 1], "file_size", 0)])

\* line 338
BytesPerMB == 1024 * 1024

\* A count of redundant files that forgets to take one file per group off.
total_files_of_all(total_duplicates, total_groups) == total_duplicates

\* line 336: 'total_files': total_duplicates - total_groups
total_files_of(total_duplicates, total_groups) == total_duplicates - total_groups

\* wasted_space_mb, a float, is kept as the fraction <<bytes, bytes per MB>>
get_duplicate_statistics(duplicate_groups) ==
    LET total_duplicates == sum([k \in 1..Len(duplicate_groups) |-> Len(duplicate_groups[k])])
        total_groups == Len(duplicate_groups)
        wasted_space ==
            sum([k \in 1..Len(duplicate_groups) |-> wasted_of_group(duplicate_groups[k])])
    IN  [total_groups |-> total_groups,
         total_duplicates |-> total_duplicates,
         total_files |-> total_files_of(total_duplicates, total_groups),
         wasted_space_bytes |-> wasted_space,
         wasted_space_mb |-> <<wasted_space, BytesPerMB>>]

\* lines 327 and 331: the sort key is the bare file_size, and a None meets another
\* key as soon as the group has two files (None < None raises as well)
get_duplicate_statistics_raises(duplicate_groups) ==
    \E k \in 1..Len(duplicate_groups) :
        /\ Len(duplicate_groups[k]) >= 2
        /\ \E m \in 1..Len(duplicate_groups[k]) :
              Get(duplicate_groups[k][m], "file_size", 0) = None

(***************************************************************************)
(* Before any call: no ranking or similarity argument, nothing raised.     *)
(***************************************************************************)
\* _merge_duplicate_groups is not running
LoopIdle ==
    /\ pc = "idle"
    /\ loop_id_groups = <<>>
    /\ loop_current = {}
    /\ loop_merged_any = FALSE
    /\ loop_merged = <<>>

\* MainWindow.__init__ (src/gui/main_window.py lines 51-63): self.all_files = []
\* is the first list; no scan, no callback, no request
WindowIdle ==
    /\ heap = << <<>> >>
    /\ all_files = 1
    /\ scan_btn = "normal"
    /\ scan_pc = "idle"
    /\ scans = 0
    /\ metadata_list = 0
    /\ pending = {}
    /\ completed = Empty
    /\ after_queue = <<>>
    /\ detect_pc = "idle"
    /\ detect_list = 0

\* DuplicateDetector.__init__; no argument of a call, nothing raised
NoArguments ==
    /\ files2 = <<>>
    /\ self_duplicate_groups = <<>>
    /\ group_arg = <<>>
    /\ keep_arg = TRUE
    /\ string1 = <<>>
    /\ string2 = <<>>
    /\ raised = FALSE

\* a detector on its own: no merger run, no window, nothing in the store
NoCallYet ==
    /\ NoArguments
    /\ LoopIdle
    /\ WindowIdle
    /\ store = <<>>

(***************************************************************************)
(* Inputs of the merger: groups of two or three distinct records of a pool *)
(* of NumIds identified records and one record without id.                 *)
(***************************************************************************)
PoolRecord(i) ==
    IF i = 0 THEN [file_path |-> 0]
    ELSE [file_path |-> i, id |-> i]

PoolGroups ==
    { <<PoolRecord(p[1]), PoolRecord(p[2])>> :
        p \in { q \in (0..NumIds) \X (1..NumIds) : q[1] < q[2] } }
    \cup { <<PoolRecord(i), PoolRecord(i + 1), PoolRecord(i + 2)>> : i \in 0..(NumIds - 2) }

GroupLists == UNION { [1..n -> PoolGroups] : n \in 0..MaxGroups }

InitMerge ==
    /\ groups \in GroupLists
    /\ files = <<>>
    /\ tolerance = DefaultTolerance
    /\ fields = DefaultCompareFields
    /\ flags = DefaultFlags
    /\ result = <<>>
    /\ result2 = <<>>
    /\ op = "none"
    /\ NoCallYet

Merge ==
    /\ op = "none"
    /\ result' = merge_duplicate_groups(groups)
    /\ op' = "merge"
    /\ raised' = FALSE
    /\ UNCHANGED <<files, files2, detector_state, fields, flags, groups,
                 result2, rank_args, sim_args, merge_loop, window>>

MergeAgain ==
    /\ op = "merge"
    /\ result2' = merge_duplicate_groups(result)
    /\ op' = "remerge"
    /\ raised' = FALSE
    /\ UNCHANGED <<files, files2, detector_state, fields, flags, groups,
                 result, rank_args, sim_args, merge_loop, window>>

NextMerge == Merge \/ MergeAgain

SpecMerge == InitMerge /\ [][NextMerge]_vars

(***************************************************************************)
(* _merge_duplicate_groups followed loop by loop: one step for each        *)
(* iteration of the outer while, each pass of the inner while and each     *)
(* exit.  The groups are pairs of records whose ids are at most 2 apart,   *)
(* one of them possibly without id.                                        *)
(***************************************************************************)
LoopPool ==
    { <<PoolRecord(p[1]), PoolRecord(p[2])>> :
        p \in { q \in (0..NumLoopIds) \X (1..NumLoopIds) : q[1] < q[2] /\ q[2] - q[1] <= 2 } }

InitLoop ==
    /\ groups \in UNION { [1..n -> LoopPool] : n \in 0..MaxLoopGroups }
    /\ files = <<>>
    /\ tolerance = DefaultTolerance
    /\ fields = DefaultCompareFields
    /\ flags = DefaultFlags
    /\ result = <<>>
    /\ result2 = <<>>
    /\ op = "none"
    /\ NoCallYet

\* what no step of the run touches
LoopFrame ==
    UNCHANGED <<files, files2, detector_state, fields, flags, groups, result2,
                rank_args, sim_args, raised, window>>

\* lines 234-245: return [] for no groups, else build id_groups and merged
StartMerge ==
    /\ pc = "idle"
    /\ IF groups = <<>>
       THEN /\ result' = <<>>
            /\ op' = "merge"
            /\ pc' = "done"
            /\ UNCHANGED loop_id_groups
       ELSE /\ loop_id_groups' = id_groups_of(groups)
            /\ pc' = "outer"
            /\ UNCHANGED <<result, op>>
    /\ loop_merged' = <<>>
    /\ UNCHANGED <<loop_current, loop_merged_any>>
    /\ LoopFrame

\* lines 246-248: while id_groups: current = id_groups.pop(0); merged_any = True
PopCurrent ==
    /\ pc = "outer"
    /\ loop_id_groups # <<>>
    /\ loop_current' = Head(loop_id_groups)
    /\ loop_id_groups' = Tail(loop_id_groups)
    /\ loop_merged_any' = TRUE
    /\ pc' = "inner"
    /\ UNCHANGED <<loop_merged, result, op>>
    /\ LoopFrame

\* lines 250-261: while merged_any: one pass over id_groups
Pass ==
    /\ pc = "inner"
    /\ loop_merged_any
    /\ LET p == merge_pass(loop_current, loop_id_groups, <<>>, FALSE)
       IN  /\ loop_current' = p[1]
           /\ loop_id_groups' = p[2]
           /\ loop_merged_any' = p[3]
    /\ UNCHANGED <<pc, loop_merged, result, op>>
    /\ LoopFrame

\* line 263: the inner while is left: merged.append(current)
AppendCurrent ==
    /\ pc = "inner"
    /\ ~loop_merged_any
    /\ loop_merged' = Append(loop_merged, loop_current)
    /\ pc' = "outer"
    /\ UNCHANGED <<loop_id_groups, loop_current, loop_merged_any, result, op>>
    /\ LoopFrame

\* lines 265-279: the outer while is left: build the groups and return them
ReturnGroups ==
    /\ pc = "outer"
    /\ loop_id_groups = <<>>
    /\ result' = rehydrate(loop_merged, groups)
    /\ op' = "merge"
    /\ pc' = "done"
    /\ UNCHANGED <<loop_id_groups, loop_current, loop_merged_any, loop_merged>>
    /\ LoopFrame

NextLoop == StartMerge \/ PopCurrent \/ Pass \/ AppendCurrent \/ ReturnGroups

SpecLoop == InitLoop /\ [][NextLoop]_vars

\* the call runs on one thread that executes its next statement: a step that
\* is possible is taken
SpecLoopFair == SpecLoop /\ WF_vars(NextLoop)

(***************************************************************************)
(* Inputs of the detection calls.  A record of the list is a template      *)
(* stamped with its position: file_path (unique in the store) is the       *)
(* position, and so is id when the record has one.  The lists are drawn    *)
(* from families of templates, each varying the fields one strategy reads. *)
(***************************************************************************)
TextAB == <<"a", "b">>
TextABSpaced == <<"A", "B", " ">>     \* "ab" in another case, with trailing space
TextBA == <<"b", "a">>               \* ratio("ab", "ba") = 1/2
TextBlank == <<" ">>                 \* empty after strip()
TextA == <<"a">>

\* file_hash varies (absent, '', two digests); no text, one size
HashFamily ==
    { [has_id |-> TRUE, file_size |-> 1] @@ h :
        h \in {Empty, [file_hash |-> ""], [file_hash |-> "abc"], [file_hash |-> "xyz"]} }

\* title varies, or album is empty or missing
TextFamily ==
    { [has_id |-> TRUE, artist |-> TextAB, album |-> TextA] @@ t :
        t \in {Empty, [title |-> TextAB], [title |-> TextABSpaced], [title |-> TextBA],
               [title |-> TextBlank]} }
    \cup { [has_id |-> TRUE, artist |-> TextAB, title |-> TextAB] @@ a :
             a \in {Empty, [album |-> <<>>]} }

\* title and duration vary: 0 s, 5 s, 5.5 s or none
DurationFamily ==
    { [has_id |-> TRUE, artist |-> TextAB, album |-> TextA] @@ t @@ d :
        t \in {[title |-> TextAB], [title |-> TextBA]},
        d \in {Empty, [duration |-> 0], [duration |-> 10], [duration |-> 11]} }

\* id, title and file_hash vary
IdFamily ==
    { [has_id |-> b, artist |-> TextAB, album |-> TextA] @@ t @@ h :
        b \in BOOLEAN,
        t \in {[title |-> TextAB], [title |-> TextBA]},
        h \in {Empty, [file_hash |-> "abc"]} }

\* title, file_hash and file_size vary
CombinedFamily ==
    { [has_id |-> TRUE, artist |-> TextAB, album |-> TextA] @@ t @@ h @@ z :
        t \in {[title |-> TextAB], [title |-> TextBA]},
        h \in {Empty, [file_hash |-> "abc"]},
        z \in {[file_size |-> 1], [file_size |-> 2]} }

\* file_size and duration vary: none, 0.5 s, 1.5 s or 2.5 s; no text
SizeFamily ==
    { [has_id |-> TRUE] @@ z @@ d :
        z \in {Empty, [file_size |-> 1]},
        d \in {Empty, [duration |-> 1], [duration |-> 3], [duration |-> 5]} }

\* <<templates, tolerances, longest list>>
InputFamilies ==
    { <<HashFamily, {DefaultTolerance}, MaxHashFiles>>,
      <<TextFamily, {DefaultTolerance, <<1, 2>>}, MaxFiles>>,
      <<DurationFamily, {DefaultTolerance}, MaxFiles>>,
      <<IdFamily, {DefaultTolerance}, MaxFiles>>,
      <<CombinedFamily, {DefaultTolerance}, MaxFiles>>,
      <<SizeFamily, {DefaultTolerance}, MaxFiles>> }

Stamp(t, i) ==
    [k \in ((DOMAIN t \ {"has_id"}) \cup {"file_path"}
              \cup (IF t.has_id THEN {"id"} ELSE {})) |->
        IF k \in {"file_path", "id"} THEN i ELSE t[k]]

StampAll(ts) == [i \in 1..Len(ts) |-> Stamp(ts[i], i)]

Init ==
    /\ \E f \in InputFamilies :
          /\ \E n \in 0..f[3] : \E ts \in [1..n -> f[1]] : files = StampAll(ts)
          /\ tolerance \in f[2]
    /\ fields = DefaultCompareFields
    /\ flags = DefaultFlags
    /\ groups = <<>>
    /\ result = <<>>
    /\ result2 = <<>>
    /\ op = "none"
    /\ NoCallYet

\* _on_find_duplicates, "Metadata" (src/gui/main_window.py line 449), and a
\* caller that names the fields to compare
FindByMetadata ==
    /\ op = "none"
    /\ \E compare_fields \in {DefaultCompareFields, <<"title">>} :
          /\ fields' = compare_fields
          /\ raised' = find_duplicates_by_metadata_raises(files, compare_fields)
          /\ result' = IF raised' THEN result
                       ELSE find_duplicates_by_metadata(files, compare_fields)
    /\ op' = "metadata"
    /\ UNCHANGED <<files, files2, detector_state, flags, groups, result2,
                 rank_args, sim_args, merge_loop, window>>

FindByHash ==
    /\ op = "none"
    /\ result' = find_duplicates_by_hash(files)
    /\ op' = "hash"
    /\ raised' = FALSE
    /\ UNCHANGED <<files, files2, detector_state, fields, flags, groups,
                 result2, rank_args, sim_args, merge_loop, window>>

FindBySizeAndDuration ==
    /\ op = "none"
    /\ raised' = find_duplicates_by_size_and_duration_raises(files)
    /\ result' = IF raised' THEN result ELSE find_duplicates_by_size_and_duration(files)
    /\ op' = "size"
    /\ UNCHANGED <<files, files2, detector_state, fields, flags, groups,
                 result2, rank_args, sim_args, merge_loop, window>>

FindCombined ==
    /\ op = "none"
    /\ \E use_metadata, use_hash, use_size \in BOOLEAN :
          /\ flags' = <<use_metadata, use_hash, use_size>>
          /\ raised' = find_duplicates_combined_raises(files, use_metadata, use_hash, use_size)
          /\ result' = IF raised' THEN result
                       ELSE find_duplicates_combined(files, use_metadata, use_hash, use_size)
    /\ op' = "combined"
    /\ UNCHANGED <<files, files2, detector_state, fields, groups, result2,
                 rank_args, sim_args, merge_loop, window>>

Next == FindByMetadata \/ FindByHash \/ FindBySizeAndDuration \/ FindCombined

Spec == Init /\ [][Next]_vars

(***************************************************************************)
(* The scenario of three records of one artist: "Let It Be", the same      *)
(* title in another case or with trailing space, and "Help".  The album of *)
(* the first two is missing, empty or "Let It Be"; their durations are     *)
(* none, 243 s and 248 s, or 243 s and 249 s; the three come in any order. *)
(***************************************************************************)
TheBeatles == <<"T", "h", "e", " ", "B", "e", "a", "t", "l", "e", "s">>
LetItBe == <<"L", "e", "t", " ", "I", "t", " ", "B", "e">>
Help == <<"H", "e", "l", "p">>

LetItBeVariants ==
    { LetItBe \o <<" ">>,
      lower(LetItBe),
      <<"L", "E", "T", " ", "I", "T", " ", "B", "E", " ">> }

ScenarioAlbums == {Empty, [album |-> <<>>], [album |-> LetItBe]}

ScenarioDurations ==
    { <<Empty, Empty>>,
      <<[duration |-> 486], Empty>>,
      <<[duration |-> 486], [duration |-> 496]>>,
      <<[duration |-> 486], [duration |-> 498]>> }

InitScenario ==
    /\ \E variant \in LetItBeVariants, album1, album2 \in ScenarioAlbums,
          d \in ScenarioDurations, order \in Permutations(1..3) :
          LET first == [has_id |-> TRUE, artist |-> TheBeatles, title |-> LetItBe]
                         @@ album1 @@ d[1]
              second == [has_id |-> TRUE, artist |-> TheBeatles, title |-> variant]
                          @@ album2 @@ d[2]
              third == [has_id |-> TRUE, artist |-> TheBeatles, title |-> Help,
                        album |-> LetItBe] @@ d[1]
              ts == <<first, second, third>>
          IN  files = StampAll([i \in 1..3 |-> ts[order[i]]])
    /\ tolerance = DefaultTolerance
    /\ fields = DefaultCompareFields
    /\ flags = DefaultFlags
    /\ groups = <<>>
    /\ result = <<>>
    /\ result2 = <<>>
    /\ op = "none"
    /\ NoCallYet

SpecScenario == InitScenario /\ [][Next]_vars

(***************************************************************************)
(* The same records handed to find_duplicates_by_metadata in two orders.   *)
(* Titles "a", "ab" and "b" at tolerance 1/2 (ratio 2/3, 2/3 and 0), or one *)
(* title with durations of 0 s, 5 s and 10 s.                              *)
(***************************************************************************)
TextB == <<"b">>

TitleChainFamily ==
    { [has_id |-> TRUE, artist |-> TextAB, album |-> TextA, title |-> t] :
        t \in {TextA, TextAB, TextB} }

DurationChainFamily ==
    { [has_id |-> TRUE, artist |-> TextAB, album |-> TextA, title |-> TextAB, duration |-> d] :
        d \in {0, 10, 20} }

OrderFamilies ==
    { <<TitleChainFamily, <<1, 2>> >>, <<DurationChainFamily, DefaultTolerance>> }

InitOrder ==
    /\ \E f \in OrderFamilies :
          /\ \E n \in 0..MaxOrderFiles : \E ts \in [1..n -> f[1]] : files = StampAll(ts)
          /\ tolerance = f[2]
    /\ fields = DefaultCompareFields
    /\ flags = DefaultFlags
    /\ groups = <<>>
    /\ result = <<>>
    /\ result2 = <<>>
    /\ op = "none"
    /\ NoCallYet

\* a second call with the fields of the first, on the records in another order
FindByMetadataReordered ==
    /\ op = "metadata"
    /\ ~raised
    /\ \E order \in Permutations(1..Len(files)) :
          /\ files2' = [i \in 1..Len(files) |-> files[order[i]]]
          /\ result2' = find_duplicates_by_metadata(files2', fields)
    /\ op' = "reordered"
    /\ UNCHANGED <<files, detector_state, fields, flags, groups, result, rank_args,
                 sim_args, raised, merge_loop, window>>

NextOrder == FindByMetadata \/ FindByMetadataReordered

SpecOrder == InitOrder /\ [][NextOrder]_vars

(***************************************************************************)
(* The main window (src/gui/main_window.py): a scan on its background      *)
(* thread and worker pool, next to the handlers of the Tk main thread:     *)
(* the Scan and Refresh buttons, the callbacks scheduled with self.after   *)
(* and the find-duplicates request.  The main thread runs one handler at a *)
(* time; the request is split into its call and its return so that steps   *)
(* of the scan thread fall in between.  Lists are objects: heap[ref] is    *)
(* what the list ref holds, and a name bound to a list holds its ref; a    *)
(* list that no name is bound to any more is dropped from the heap.        *)
(***************************************************************************)
\* the ref of a list that is created: the first one not in use
NewRef(lists) ==
    CHOOSE ref \in 1..(Cardinality(DOMAIN lists) + 1) :
        ref \notin DOMAIN lists /\ \A r \in 1..(ref - 1) : r \in DOMAIN lists

\* the lists that one of the names refs is bound to
Live(lists, refs) == [ref \in DOMAIN lists \cap refs |-> lists[ref]]

\* the strategies _on_find_duplicates chooses from (lines 448-455)
DetectionOps == {"metadata", "hash", "size", "combined"}

DiskFiles == 1..MaxDiskFiles

\* MetadataHandler.read_metadata of a file that can be read: the first two
\* files are copies of one track
read_metadata(file_path) ==
    [file_path |-> file_path,
     file_hash |-> IF file_path <= 2 THEN "abc" ELSE "xyz",
     artist |-> TextAB, title |-> TextAB, album |-> TextA,
     file_size |-> 1, duration |-> 0]

\* the id AUTOINCREMENT gives the next row
next_id(rows) ==
    1 + (IF rows = <<>> THEN 0
         ELSE CHOOSE n \in { rows[k].id : k \in 1..Len(rows) } :
                  \A k \in 1..Len(rows) : rows[k].id <= n)

\* MusicDatabase.add_files_batch (src/core/database.py lines 161-236): INSERT OR
\* REPLACE of each metadata dict; file_path is UNIQUE
RECURSIVE add_files_batch(_, _)
add_files_batch(rows, metadata) ==
    IF metadata = <<>> THEN rows
    ELSE LET kept == SelectSeq(rows, LAMBDA r : r.file_path # Head(metadata).file_path)
         IN  add_files_batch(Append(kept, Head(metadata) @@ [id |-> next_id(rows)]),
                             Tail(metadata))

\* MusicDatabase.get_all_files (src/core/database.py lines 287-306): a new list
\* of the rows (ORDER BY artist, album, track_number, which are equal here)
get_all_files(rows) == rows

\* A refresh that refills the list self.all_files is bound to.
refresh_library_in_place(lists, current, rows) ==
    <<[lists EXCEPT ![current] = get_all_files(rows)], current>>

\* line 284: self.all_files = self.db.get_all_files() binds the name to the new
\* list; the list it was bound to is left as it is.  Returns <<heap, all_files>>.
refresh_library(lists, current, rows) ==
    <<[ref \in DOMAIN lists \cup {NewRef(lists)} |->
          IF ref \in DOMAIN lists THEN lists[ref] ELSE get_all_files(rows)],
      NewRef(lists)>>

\* the store file outlives the window: it is empty, or holds the row an
\* earlier session wrote for the first file
EarlierSession == add_files_batch(<<>>, <<read_metadata(1)>>)

InitWindow ==
    /\ files = <<>>
    /\ tolerance = DefaultTolerance
    /\ fields = DefaultCompareFields
    /\ flags = DefaultFlags
    /\ groups = <<>>
    /\ result = <<>>
    /\ result2 = <<>>
    /\ op = "none"
    /\ NoArguments
    /\ LoopIdle
    /\ WindowIdle
    /\ store \in {<<>>, EarlierSession}

\* what no handler of the window and no step of the scan touches
WindowFrame ==
    UNCHANGED <<files2, detector_state, fields, flags, groups, result2, rank_args,
                sim_args, merge_loop>>

NoDetection == UNCHANGED <<files, result, op, raised, detect_pc, detect_list>>

\* lines 215-222, 279-280: the Scan button, a folder being selected: disable the
\* button and start scan_thread
ScanClick ==
    /\ detect_pc = "idle"
    /\ scan_btn = "normal"
    /\ scans < MaxScans
    /\ scan_btn' = "disabled"
    /\ scan_pc' = "started"
    /\ scans' = scans + 1
    /\ UNCHANGED <<heap, all_files, store, metadata_list, pending, completed, after_queue>>
    /\ NoDetection
    /\ WindowFrame

\* lines 227-244, scan thread: list the folder, metadata_list = [], submit one
\* read_metadata task for each file
ScanDirectory ==
    /\ scan_pc = "started"
    /\ heap' = [ref \in DOMAIN heap \cup {NewRef(heap)} |->
                  IF ref \in DOMAIN heap THEN heap[ref] ELSE <<>>]
    /\ metadata_list' = NewRef(heap)
    /\ pending' = DiskFiles
    /\ scan_pc' = "collect"
    /\ UNCHANGED <<all_files, store, scan_btn, scans, completed, after_queue>>
    /\ NoDetection
    /\ WindowFrame

\* line 242, a worker of the pool: read_metadata returns the metadata, or None
\* (here the dict without keys, falsy as well) for a file it cannot read
WorkerReads ==
    /\ \E file_path \in pending :
       \E metadata \in {read_metadata(file_path), Empty} :
          /\ pending' = pending \ {file_path}
          /\ completed' = [f \in DOMAIN completed \cup {file_path} |->
                              IF f = file_path THEN metadata ELSE completed[f]]
    /\ UNCHANGED <<heap, all_files, store, scan_btn, scan_pc, scans, metadata_list,
                   after_queue>>
    /\ NoDetection
    /\ WindowFrame

\* lines 247-253, scan thread: take a completed future and append its metadata,
\* if any, to metadata_list
Collect ==
    /\ scan_pc = "collect"
    /\ \E file_path \in DOMAIN completed :
          /\ heap' = IF completed[file_path] # Empty
                     THEN [heap EXCEPT ![metadata_list] = Append(@, completed[file_path])]
                     ELSE heap
          /\ completed' = [f \in DOMAIN completed \ {file_path} |-> completed[f]]
    /\ UNCHANGED <<all_files, store, scan_btn, scan_pc, scans, metadata_list, pending,
                   after_queue>>
    /\ NoDetection
    /\ WindowFrame

\* line 267, scan thread, after the pool has shut down: write the store
AddToStore ==
    /\ scan_pc = "collect"
    /\ pending = {}
    /\ completed = Empty
    /\ store' = add_files_batch(store, heap[metadata_list])
    /\ scan_pc' = "schedule"
    /\ UNCHANGED <<heap, all_files, scan_btn, scans, metadata_list, pending, completed,
                   after_queue>>
    /\ NoDetection
    /\ WindowFrame

\* line 272, scan thread: self.after(100, self._refresh_library)
ScheduleRefresh ==
    /\ scan_pc = "schedule"
    /\ after_queue' = Append(after_queue, "refresh")
    /\ scan_pc' = "finally"
    /\ UNCHANGED <<heap, all_files, store, scan_btn, scans, metadata_list, pending,
                   completed>>
    /\ NoDetection
    /\ WindowFrame

\* lines 276-277, scan thread: self.after(100, <enable the button>); the thread
\* ends and its metadata_list with it
ScheduleEnable ==
    /\ scan_pc = "finally"
    /\ after_queue' = Append(after_queue, "enable")
    /\ scan_pc' = "idle"
    /\ metadata_list' = 0
    /\ heap' = Live(heap, {all_files, detect_list})
    /\ UNCHANGED <<all_files, store, scan_btn, scans, pending, completed>>
    /\ NoDetection
    /\ WindowFrame

\* the main thread runs the callback that is due first: _refresh_library
\* (lines 282-290) or the enabling of the Scan button (line 277)
RunAfter ==
    /\ detect_pc = "idle"
    /\ after_queue # <<>>
    /\ after_queue' = Tail(after_queue)
    /\ IF Head(after_queue) = "refresh"
       THEN /\ all_files' = refresh_library(heap, all_files, store)[2]
            /\ heap' = Live(refresh_library(heap, all_files, store)[1],
                            {all_files', metadata_list})
            /\ UNCHANGED scan_btn
       ELSE /\ scan_btn' = "normal"
            /\ UNCHANGED <<heap, all_files>>
    /\ UNCHANGED <<store, scan_pc, scans, metadata_list, pending, completed>>
    /\ NoDetection
    /\ WindowFrame

\* line 116: the Refresh button calls _refresh_library on the main thread
RefreshClick ==
    /\ detect_pc = "idle"
    /\ all_files' = refresh_library(heap, all_files, store)[2]
    /\ heap' = Live(refresh_library(heap, all_files, store)[1], {all_files', metadata_list})
    /\ UNCHANGED <<store, scan_state>>
    /\ NoDetection
    /\ WindowFrame

\* lines 445-455: _on_find_duplicates hands self.all_files to the strategy of
\* the method chosen
DetectStart ==
    /\ detect_pc = "idle"
    /\ op' \in DetectionOps
    /\ detect_list' = all_files
    /\ files' = heap[all_files]
    /\ detect_pc' = "running"
    /\ UNCHANGED <<heap, all_files, store, scan_state, result, raised>>
    /\ WindowFrame

\* lines 447-462: the strategy returns its groups from the list it was handed,
\* as that list is now; an exception is caught and [] returned
DetectEnd ==
    /\ detect_pc = "running"
    /\ LET handed == heap[detect_list]
           failed ==
               CASE op = "metadata" ->
                        find_duplicates_by_metadata_raises(handed, DefaultCompareFields)
                 [] op = "hash" -> FALSE
                 [] op = "size" -> find_duplicates_by_size_and_duration_raises(handed)
                 [] op = "combined" ->
                        find_duplicates_combined_raises(handed, TRUE, TRUE, FALSE)
       IN  result' =
               IF failed THEN <<>>
               ELSE CASE op = "metadata" ->
                             find_duplicates_by_metadata(handed, DefaultCompareFields)
                      [] op = "hash" -> find_duplicates_by_hash(handed)
                      [] op = "size" -> find_duplicates_by_size_and_duration(handed)
                      [] op = "combined" ->
                             find_duplicates_combined(handed, TRUE, TRUE, FALSE)
    /\ raised' = FALSE
    /\ detect_pc' = "idle"
    /\ detect_list' = 0
    /\ heap' = Live(heap, {all_files, metadata_list})
    /\ UNCHANGED <<files, op, all_files, store, scan_state>>
    /\ WindowFrame

NextWindow ==
    \/ ScanClick \/ ScanDirectory \/ WorkerReads \/ Collect \/ AddToStore
    \/ ScheduleRefresh \/ ScheduleEnable \/ RunAfter \/ RefreshClick
    \/ DetectStart \/ DetectEnd

SpecWindow == InitWindow /\ [][NextWindow]_vars

(***************************************************************************)
(* Inputs of the ranking and the statistics: lists of groups whose records *)
(* differ in bitrate and file_size (or have none: the default 0 applies).  *)
(* A record is a template stamped with a number of its own, its file_path  *)
(* and id.  A list is empty, holds one group of up to MaxGroupSize records *)
(* (an empty group too), or two groups of up to MaxPairedSize records that *)
(* are disjoint or share one record.                                       *)
(***************************************************************************)
QualityFamily ==
    { b @@ z :
        b \in {Empty, [bitrate |-> 320000]},
        z \in {Empty, [file_size |-> 3 * BytesPerMB], [file_size |-> 5 * BytesPerMB],
               [file_size |-> 10 * BytesPerMB]} }

PairedFamily ==
    { [file_size |-> 10 * BytesPerMB],
      [bitrate |-> 320000, file_size |-> 3 * BytesPerMB],
      [bitrate |-> 320000, file_size |-> 5 * BytesPerMB] }

\* the records made of the templates ts, numbered from base + 1
StampGroup(ts, base) ==
    [i \in 1..Len(ts) |-> ts[i] @@ [file_path |-> base + i, id |-> base + i]]

TemplateLists(family, longest) == UNION { [1..n -> family] : n \in 0..longest }

RankGroupLists ==
    { <<>> }
    \cup { <<StampGroup(ts, 0)>> : ts \in TemplateLists(QualityFamily, MaxGroupSize) }
    \cup { <<StampGroup(t1, 0),
             (IF share /\ t1 # <<>> THEN <<StampGroup(t1, 0)[Len(t1)]>> ELSE <<>>)
                 \o StampGroup(t2, Len(t1))>> :
              t1 \in TemplateLists(PairedFamily, MaxPairedSize),
              t2 \in TemplateLists(PairedFamily, MaxPairedSize),
              share \in BOOLEAN }

InitRank ==
    /\ groups \in RankGroupLists
    /\ files = <<>>
    /\ tolerance = DefaultTolerance
    /\ fields = DefaultCompareFields
    /\ flags = DefaultFlags
    /\ result = <<>>
    /\ result2 = <<>>
    /\ op = "none"
    /\ NoCallYet

\* filter_duplicates_by_quality on one group of the list, or on an empty group
\* when the list has none
FilterByQuality ==
    /\ op = "none"
    /\ \E k \in (IF groups = <<>> THEN {0} ELSE 1..Len(groups)) :
       \E keep_highest \in BOOLEAN :
          LET duplicate_group == IF k = 0 THEN <<>> ELSE groups[k]
          IN  /\ group_arg' = duplicate_group
              /\ keep_arg' = keep_highest
              /\ raised' = filter_duplicates_by_quality_raises(duplicate_group)
              /\ result' = IF raised' THEN result
                           ELSE filter_duplicates_by_quality(duplicate_group, keep_highest)
              /\ groups' = IF k = 0 THEN groups
                           ELSE [groups EXCEPT
                                   ![k] = group_after_filter(duplicate_group, keep_highest)]
    /\ op' = "filter"
    /\ UNCHANGED <<files, files2, detector_state, fields, flags, result2,
                 sim_args, merge_loop, window>>

AutoSelect ==
    /\ op = "none"
    /\ \E keep_highest_quality \in BOOLEAN :
          /\ keep_arg' = keep_highest_quality
          /\ raised' = auto_select_duplicates_for_removal_raises(groups)
          /\ result' = IF raised' THEN result
                       ELSE auto_select_duplicates_for_removal(groups, keep_highest_quality)
          /\ groups' = [k \in 1..Len(groups) |->
                          group_after_filter(groups[k], keep_highest_quality)]
    /\ op' = "select"
    /\ UNCHANGED <<files, files2, detector_state, fields, flags, result2,
                 group_arg, sim_args, merge_loop, window>>

GetStatistics ==
    /\ op = "none"
    /\ raised' = get_duplicate_statistics_raises(groups)
    /\ result' = IF raised' THEN result ELSE get_duplicate_statistics(groups)
    /\ groups' = [k \in 1..Len(groups) |-> group_after_statistics(groups[k])]
    /\ op' = "statistics"
    /\ UNCHANGED <<files, files2, detector_state, fields, flags, result2,
                 rank_args, sim_args, merge_loop, window>>

\* every operation of the detector, called on the group list or on the (empty)
\* file list
NextRank ==
    \/ FilterByQuality \/ AutoSelect \/ GetStatistics \/ Merge
    \/ FindByMetadata \/ FindByHash \/ FindBySizeAndDuration \/ FindCombined

SpecRank == InitRank /\ [][NextRank]_vars

(***************************************************************************)
(* Every operation on inputs that are not empty: a group list of the       *)
(* ranking with no file list, or a file list with no group list.           *)
(***************************************************************************)
InitPure ==
    /\ \/ /\ groups \in RankGroupLists
          /\ files = <<>>
       \/ /\ groups = <<>>
          /\ \E n \in 1..MaxFiles : \E ts \in [1..n -> CombinedFamily] : files = StampAll(ts)
    /\ tolerance = DefaultTolerance
    /\ fields = DefaultCompareFields
    /\ flags = DefaultFlags
    /\ result = <<>>
    /\ result2 = <<>>
    /\ op = "none"
    /\ NoCallYet

SpecPure == InitPure /\ [][NextRank]_vars

(***************************************************************************)
(* Inputs with NULL columns: the store declares file_size, duration and    *)
(* bitrate without NOT NULL (src/core/database.py lines 55, 64, 65), and a *)
(* row read back gives None for them.  The detection calls get lists of up *)
(* to MaxNullFiles records; the ranking and statistics calls get one group *)
(* of one or two records, alone or behind a group without None.            *)
(***************************************************************************)
NullFileFamily ==
    { [has_id |-> TRUE, artist |-> TextAB, album |-> TextA] @@ t @@ d @@ z :
        t \in {[title |-> TextAB], [title |-> TextBA]},
        d \in {Empty, [duration |-> None], [duration |-> 0]},
        z \in {[file_size |-> 1], [file_size |-> None]} }

NullQualityFamily ==
    { b @@ z :
        b \in {Empty, [bitrate |-> None], [bitrate |-> 320000]},
        z \in {Empty, [file_size |-> None], [file_size |-> 3 * BytesPerMB]} }

NullGroups ==
    { StampGroup(ts, 0) : ts \in [1..1 -> NullQualityFamily] \cup [1..2 -> NullQualityFamily] }

SoundGroup ==
    <<[bitrate |-> 320000, file_size |-> 5 * BytesPerMB, file_path |-> 8, id |-> 8],
      [file_size |-> 3 * BytesPerMB, file_path |-> 9, id |-> 9]>>

NullGroupLists ==
    { <<g>> : g \in NullGroups } \cup { <<SoundGroup, g>> : g \in NullGroups }

InitNull ==
    /\ \/ /\ \E n \in 0..MaxNullFiles : \E ts \in [1..n -> NullFileFamily] : files = StampAll(ts)
          /\ groups = <<>>
       \/ /\ files = <<>>
          /\ groups \in NullGroupLists
    /\ tolerance = DefaultTolerance
    /\ fields = DefaultCompareFields
    /\ flags = DefaultFlags
    /\ result = <<>>
    /\ result2 = <<>>
    /\ op = "none"
    /\ NoCallYet

SpecNull == InitNull /\ [][NextRank]_vars

(***************************************************************************)
(* Inputs of calculate_similarity: None or a string of up to MaxLen        *)
(* characters, the first over "a", "b", "C" and the second over "a", "b",  *)
(* "c".                                                                    *)
(***************************************************************************)
Strings(alphabet) == UNION { [1..n -> alphabet] : n \in 0..MaxLen }

InitSim ==
    /\ string1 \in Strings({"a", "b", "C"}) \cup {NoneText}
    /\ string2 \in Strings({"a", "b", "c"}) \cup {NoneText}
    /\ files = <<>>
    /\ groups = <<>>
    /\ tolerance = DefaultTolerance
    /\ fields = DefaultCompareFields
    /\ flags = DefaultFlags
    /\ result = <<>>
    /\ result2 = <<>>
    /\ op = "none"
    /\ files2 = <<>>
    /\ self_duplicate_groups = <<>>
    /\ group_arg = <<>>
    /\ keep_arg = TRUE
    /\ raised = FALSE
    /\ LoopIdle
    /\ WindowIdle
    /\ store = <<>>

Similarity ==
    /\ op = "none"
    /\ result' = calculate_similarity(string1, string2)
    /\ op' = "similarity"
    /\ raised' = FALSE
    /\ UNCHANGED <<files, files2, detector_state, fields, flags, groups,
                 result2, rank_args, sim_args, merge_loop, window>>

NextSim == Similarity

SpecSim == InitSim /\ [][NextSim]_vars

(***************************************************************************)
(* Vocabulary of the merger's claims.                                      *)
(***************************************************************************)
\* the ids of the records of a group, read off the records themselves
HasId(r) == "id" \in DOMAIN r

IdSet(g) == { g[k].id : k \in { n \in 1..Len(g) : "id" \in DOMAIN g[n] } }

SharesId(g, h) == IdSet(g) \cap IdSet(h) # {}

\* the output groups that hold some id of the set S
OutputsTouching(S) == { k \in 1..Len(result) : IdSet(result[k]) \cap S # {} }

\* input groups i and j end up inside one output group
Combined(i, j) ==
    \E k \in 1..Len(result) :
        (IdSet(groups[i]) \cup IdSet(groups[j])) \subseteq IdSet(result[k])

\* the input groups reachable from those of S through groups that share an id
RECURSIVE Linked(_)
Linked(S) ==
    LET T == S \cup { k \in 1..Len(groups) : \E m \in S : SharesId(groups[k], groups[m]) }
    IN  IF T = S THEN S ELSE Linked(T)

C2_OutputGroupsDisjoint ==
    op = "merge" =>
        \A k, l \in 1..Len(result) :
            k # l => IdSet(result[k]) \cap IdSet(result[l]) = {}

\* two input groups of different members were merged and the merger returned
\* two groups
C2_Witness ==
    /\ op = "merge"
    /\ Len(result) >= 2
    /\ \E i, j \in 1..Len(groups) :
          i < j /\ SharesId(groups[i], groups[j]) /\ IdSet(groups[i]) # IdSet(groups[j])

\* C3 as stated, in the particular it names: two input groups that have no id
\* in common are never placed in the same output group.
C3_NoCommonIdNeverCombined ==
    op = "merge" =>
        \A i, j \in 1..Len(groups) :
            (i # j /\ Combined(i, j)) => SharesId(groups[i], groups[j])

\* C3 amended: two input groups that hold at least two distinct ids between
\* them are combined into one output group if and only if they are linked by a
\* chain of input groups in which consecutive groups share an id.
C3_CombinedIffLinked ==
    op = "merge" =>
        \A i \in 1..Len(groups) :
            LET reach == Linked({i})
            IN  \A j \in 1..Len(groups) :
                    (i # j /\ Cardinality(IdSet(groups[i]) \cup IdSet(groups[j])) >= 2) =>
                        (Combined(i, j) <=> j \in reach)

\* two input groups without a common id were combined through a third group
C3_Witness ==
    /\ op = "merge"
    /\ \E i, j \in 1..Len(groups) :
          /\ i # j
          /\ ~SharesId(groups[i], groups[j])
          /\ Combined(i, j)

\* C4: the merger is idempotent: run on its own output it returns the same
\* groups with the same members.
C4_MergeIdempotent ==
    op = "remerge" => result2 = result

\* the first run merged overlapping groups, the second run had groups to return
C4_Witness ==
    /\ op = "remerge"
    /\ Len(result2) >= 1
    /\ \E i, j \in 1..Len(groups) :
          i # j /\ SharesId(groups[i], groups[j]) /\ IdSet(groups[i]) # IdSet(groups[j])

(***************************************************************************)
(* The merger against a reference disjoint-set union over the ids.         *)
(***************************************************************************)
\* every id of the input groups
AllIds == UNION { IdSet(groups[k]) : k \in 1..Len(groups) }

\* the root of x in a forest of parent pointers
RECURSIVE Find(_, _)
Find(parent, x) == IF parent[x] = x THEN x ELSE Find(parent, parent[x])

Union(parent, x, y) ==
    LET rx == Find(parent, x)
        ry == Find(parent, y)
    IN  IF rx = ry THEN parent ELSE [parent EXCEPT ![ry] = rx]

\* unite the id of every identified record of the group with the id of the
\* first identified record seen, anchor (0 before one was seen)
RECURSIVE UnionGroup(_, _, _)
UnionGroup(parent, g, anchor) ==
    IF g = <<>> THEN parent
    ELSE IF ~HasId(Head(g)) THEN UnionGroup(parent, Tail(g), anchor)
    ELSE IF anchor = 0 THEN UnionGroup(parent, Tail(g), Head(g).id)
    ELSE UnionGroup(Union(parent, anchor, Head(g).id), Tail(g), anchor)

RECURSIVE UnionAll(_, _)
UnionAll(parent, gs) ==
    IF gs = <<>> THEN parent ELSE UnionAll(UnionGroup(parent, Head(gs), 0), Tail(gs))

\* the connected components the reference computes
Components ==
    LET parent == UnionAll([x \in AllIds |-> x], groups)
    IN  { { y \in AllIds : Find(parent, y) = Find(parent, x) } : x \in AllIds }

\* the id sets the fixed-point loop of the merger leaves in merged
MergedSets == merge_sets(id_groups_of(groups), <<>>)

\* C23: the id sets the fixed-point loop computes are the connected components
\* of the graph whose edges join the ids of one input group, each component
\* once: they are the sets of the reference disjoint-set union, wherever in
\* the input the linking group stands.
C23_ConnectedComponents ==
    op = "merge" =>
        LET m == MergedSets
        IN  /\ Range(m) = Components
            /\ Len(m) = Cardinality(Components)

\* a chain: the first and the second input group share no id and the third,
\* after both, links them; the three came out as one group
C23_Witness ==
    /\ op = "merge"
    /\ Len(groups) = 3
    /\ ~SharesId(groups[1], groups[2])
    /\ SharesId(groups[1], groups[3])
    /\ SharesId(groups[2], groups[3])
    /\ Len(result) = 1
    /\ IdSet(result[1]) = AllIds
    /\ Cardinality(AllIds) >= 4

\* the first position of record r in the input groups read one after another
FirstSeen(r) ==
    LET all == Flatten(groups)
    IN  CHOOSE i \in 1..Len(all) : all[i] = r /\ \A j \in 1..(i - 1) : all[j] # r

\* the positions in merged of the id sets that more than one input record has
\* an id of
KeptSets ==
    LET m == MergedSets
    IN  { k \in 1..Len(m) :
            Cardinality({ r \in Range(Flatten(groups)) : GetId(r) \in m[k] }) > 1 }

\* C24: each output group lists every input record whose id is in its id set
\* exactly once, in the order in which the records are first seen when the
\* input groups are read one after another; the output groups stand in the
\* order of their id sets, one for each id set that has more than one record.
C24_RehydratedInFirstSeenOrder ==
    op = "merge" =>
        LET m == MergedSets
            all == Flatten(groups)
        IN  /\ Len(result) = Cardinality(KeptSets)
            /\ \A k \in 1..Len(result) :
                  LET g == result[k]
                      n == CHOOSE n \in KeptSets :
                               Cardinality({ j \in KeptSets : j < n }) = k - 1
                  IN  /\ Range(g) = { r \in Range(all) : GetId(r) \in m[n] }
                      /\ \A a, b \in 1..Len(g) : a < b =>
                            (g[a] # g[b] /\ FirstSeen(g[a]) < FirstSeen(g[b]))

\* a record that two input groups hold came out once, and the output group
\* lists a record of the second input group before one of the first
C24_Witness ==
    /\ op = "merge"
    /\ Len(groups) >= 2
    /\ Len(result) = 1
    /\ \E r \in Range(groups[1]) \cap Range(groups[2]) : HasId(r)
    /\ Len(result[1]) = 3
    /\ result[1][1].id > result[1][3].id

\* C28: the merger loses no identified record and invents none: every record
\* with an id that is in an input group holding at least two distinct ids is
\* in exactly one output group, once, and every output record is in some
\* input group.
C28_NoRecordLost ==
    op = "merge" =>
        /\ \A i \in 1..Len(groups) :
              Cardinality(IdSet(groups[i])) >= 2 =>
                  \A n \in 1..Len(groups[i]) :
                      HasId(groups[i][n]) =>
                          /\ Cardinality({ k \in 1..Len(result) :
                                              Contains(result[k], groups[i][n]) }) = 1
                          /\ \A k \in 1..Len(result) :
                                Cardinality({ a \in 1..Len(result[k]) :
                                                result[k][a] = groups[i][n] }) <= 1
        /\ \A k \in 1..Len(result) : \A a \in 1..Len(result[k]) :
              \E i \in 1..Len(groups) : Contains(groups[i], result[k][a])

\* a group of a record without id and one with id stood next to a group of
\* two identified records: the two came out, the others did not
C28_Witness ==
    /\ op = "merge"
    /\ \E i, j \in 1..Len(groups) :
          /\ Cardinality(IdSet(groups[i])) = 1
          /\ Cardinality(IdSet(groups[j])) = 2
          /\ ~SharesId(groups[i], groups[j])
    /\ Len(result) = 1
    /\ Len(result[1]) = 2

\* C27: _merge_duplicate_groups terminates on every input: each run reaches
\* its return; every pass that reports a merge leaves fewer id sets to look
\* at than it found, and every iteration of the outer loop takes one id set
\* off the list.
C27_MergeTerminates ==
    /\ <>(pc = "done")
    /\ [][(pc = "inner" /\ loop_merged_any /\ loop_merged_any') =>
             Len(loop_id_groups') < Len(loop_id_groups)]_vars
    /\ [][(pc = "outer" /\ pc' = "inner") =>
             Len(loop_id_groups') = Len(loop_id_groups) - 1]_vars

\* a pass has merged a set into current and left behind a set that overlaps
\* current only now: another pass is due
C27_Witness ==
    /\ pc = "inner"
    /\ loop_merged_any
    /\ Cardinality(loop_current) >= 3
    /\ \E k \in 1..Len(loop_id_groups) : loop_id_groups[k] \cap loop_current # {}

\* the run followed loop by loop returns what merge_duplicate_groups returns
LoopReturnsMerge == pc = "done" => result = merge_duplicate_groups(groups)

(***************************************************************************)
(* Vocabulary of the detection claims.                                     *)
(***************************************************************************)
\* the index of the output group that holds record r, 0 when none does
GroupOf(r) ==
    IF \E k \in 1..Len(result) : Contains(result[k], r)
    THEN CHOOSE k \in 1..Len(result) : Contains(result[k], r)
    ELSE 0

\* how often record r occurs in the output
Occurrences(r) ==
    Cardinality(UNION { { <<k, m>> : m \in { n \in 1..Len(result[k]) : result[k][n] = r } } :
                          k \in 1..Len(result) })

SameGroup(r1, r2) ==
    \E k \in 1..Len(result) : Contains(result[k], r1) /\ Contains(result[k], r2)

\* C5: for every non-empty file list, every group a detection operation returns
\* has at least 2 members, holds no record twice and holds no id twice.
C5_GroupsOfTwoOrMoreDistinct ==
    (op \in DetectionOps /\ files # <<>>) =>
        \A k \in 1..Len(result) :
            /\ Len(result[k]) >= 2
            /\ \A m, n \in 1..Len(result[k]) :
                  m # n =>
                      /\ result[k][m] # result[k][n]
                      /\ (HasId(result[k][m]) /\ HasId(result[k][n])) =>
                             result[k][m].id # result[k][n].id

\* the combined call merged a metadata group and a hash group that overlap
C5_Witness ==
    /\ op = "combined"
    /\ flags = DefaultFlags
    /\ Len(result) = 1
    /\ Len(result[1]) = 3
    /\ \E g \in Range(find_duplicates_by_metadata(files, DefaultCompareFields)) :
          \E h \in Range(find_duplicates_by_hash(files)) :
              /\ IdSet(g) \cap IdSet(h) # {}
              /\ IdSet(g) # IdSet(h)

\* C6: no group returned by a detection strategy holds a record without id.
C6_NoRecordWithoutIdGrouped ==
    op \in DetectionOps =>
        \A k \in 1..Len(result) : \A m \in 1..Len(result[k]) : HasId(result[k][m])

\* file_hash as the record gives it, '' when it gives none
HashOf(r) == IF "file_hash" \in DOMAIN r THEN r.file_hash ELSE ""

\* C7: find_duplicates_by_hash returns exactly the partitions of the input by
\* non-empty file_hash that have 2 or more members: two records are in one group
\* iff their hashes are equal and non-empty, a record without hash is in no
\* group, and no record is in two groups.
C7_HashPartition ==
    op = "hash" =>
        /\ \A i, j \in 1..Len(files) :
              i # j => (SameGroup(files[i], files[j])
                           <=> (HashOf(files[i]) = HashOf(files[j]) /\ HashOf(files[i]) # ""))
        /\ \A i \in 1..Len(files) :
              /\ HashOf(files[i]) = "" => GroupOf(files[i]) = 0
              /\ Occurrences(files[i]) <= 1
        /\ \A k \in 1..Len(result) :
              /\ Len(result[k]) >= 2
              /\ Range(result[k]) \subseteq Range(files)

\* three records of hash "abc" and one of hash "xyz": one group of the three
C7_Witness ==
    /\ op = "hash"
    /\ Len(files) = 4
    /\ Cardinality({ i \in 1..4 : HashOf(files[i]) = "abc" }) = 3
    /\ Cardinality({ i \in 1..4 : HashOf(files[i]) = "xyz" }) = 1
    /\ Len(result) = 1
    /\ Len(result[1]) = 3

\* a text field as the record gives it, trimmed; empty when the record has none
Trimmed(r, field) == strip(IF field \in DOMAIN r THEN r[field] ELSE <<>>)

\* the match of the claim: every configured field non-empty after trimming and
\* similar to at least the tolerance, and durations, when both records have
\* one, at most 5 seconds (10 half seconds) apart
ClaimMatch(r1, r2) ==
    /\ \A k \in 1..Len(fields) :
          /\ Trimmed(r1, fields[k]) # <<>>
          /\ Trimmed(r2, fields[k]) # <<>>
          /\ LET sim == calculate_similarity(Trimmed(r1, fields[k]), Trimmed(r2, fields[k]))
             IN  sim[1] * tolerance[2] >= tolerance[1] * sim[2]
    /\ ("duration" \in DOMAIN r1 /\ "duration" \in DOMAIN r2) =>
          (r1.duration - r2.duration <= 10 /\ r2.duration - r1.duration <= 10)

\* the position of the anchor (first record) of the output group that holds the
\* record at position p, 0 when none does
AnchorOf(p) ==
    IF GroupOf(files[p]) = 0 THEN 0 ELSE result[GroupOf(files[p])][1].file_path

\* the ids marked processed when the anchor at position i looks at position j:
\* those of the groups of earlier anchors, and of the matches found so far
ProcessedWhen(i, j) ==
    { GetId(files[p]) : p \in { q \in 1..Len(files) :
          \/ (AnchorOf(q) # 0 /\ AnchorOf(q) < i)
          \/ (AnchorOf(q) = i /\ q # i /\ q < j) } }

\* C8: in find_duplicates_by_metadata an unprocessed later record joins the group
\* of an unprocessed anchor if and only if the two records match as ClaimMatch
\* says; every member of a group is later than its anchor and matches it.
C8_JoinsIffMatch ==
    op = "metadata" =>
        /\ \A i, j \in 1..Len(files) :
              (/\ i < j
               /\ GetId(files[i]) \notin ProcessedWhen(i, i)
               /\ GetId(files[j]) \notin ProcessedWhen(i, j)) =>
                  (AnchorOf(j) = i <=> ClaimMatch(files[i], files[j]))
        /\ \A k \in 1..Len(result) : \A m \in 2..Len(result[k]) :
              /\ result[k][1].file_path < result[k][m].file_path
              /\ ClaimMatch(result[k][1], result[k][m])

\* at the default tolerance a title in another case with trailing space joined
\* its anchor while a third record, its title different, stayed out
C8_Witness ==
    /\ op = "metadata"
    /\ tolerance = DefaultTolerance
    /\ fields = DefaultCompareFields
    /\ Len(files) = 3
    /\ \E k \in 1..Len(result) : \E m \in 2..Len(result[k]) :
          result[k][1].title # result[k][m].title
    /\ \E j \in 1..Len(files) :
          /\ GroupOf(files[j]) = 0
          /\ Trimmed(files[j], "title") # <<>>
          /\ Trimmed(files[j], "album") # <<>>

\* the records of the scenario, told by their trimmed title in lower case
IsLetItBe(r) == lower(Trimmed(r, "title")) = lower(LetItBe)

IsHelp(r) == lower(Trimmed(r, "title")) = lower(Help)

\* both records report a duration and the two are at most 5 seconds apart
DurationsWithinFive(r1, r2) ==
    /\ "duration" \in DOMAIN r1
    /\ "duration" \in DOMAIN r2
    /\ Abs(r1.duration - r2.duration) <= 2 * DurationTolerance

ScenarioCall ==
    /\ op = "metadata"
    /\ ~raised
    /\ tolerance = DefaultTolerance
    /\ fields = DefaultCompareFields

\* the two records are in one output group that holds no "Help" record
GroupedWithoutHelp(r1, r2) ==
    \E k \in 1..Len(result) :
        /\ Contains(result[k], r1)
        /\ Contains(result[k], r2)
        /\ \A m \in 1..Len(result[k]) : ~IsHelp(result[k][m])

\* C21 as the scenario words it: with tolerance 0.9 and the default fields,
\* find_duplicates_by_metadata puts two "Let It Be" records of The Beatles
\* whose durations are within 5 seconds into one group, without "Help".
C21_ScenarioGrouped ==
    ScenarioCall =>
        \A i, j \in 1..Len(files) :
            (/\ i < j
             /\ IsLetItBe(files[i])
             /\ IsLetItBe(files[j])
             /\ DurationsWithinFive(files[i], files[j])) =>
                GroupedWithoutHelp(files[i], files[j])

\* C21: with tolerance 0.9 and the default fields (artist, title, album),
\* find_duplicates_by_metadata puts two "Let It Be" records of The Beatles
\* whose durations are within 5 seconds into one group, without "Help",
\* when both have the same non-empty album; it puts them into no group when
\* the album of either is missing or empty.
C21_ScenarioGroupedWithAlbum ==
    ScenarioCall =>
        \A i, j \in 1..Len(files) :
            (/\ i < j
             /\ IsLetItBe(files[i])
             /\ IsLetItBe(files[j])
             /\ DurationsWithinFive(files[i], files[j])) =>
                IF /\ Trimmed(files[i], "album") # <<>>
                   /\ lower(Trimmed(files[i], "album")) = lower(Trimmed(files[j], "album"))
                THEN GroupedWithoutHelp(files[i], files[j])
                ELSE ~SameGroup(files[i], files[j])

\* the two "Let It Be" records, 5 seconds apart and of one album, were
\* grouped and "Help", of the same album and artist, was left out
C21_Witness ==
    /\ ScenarioCall
    /\ Len(result) = 1
    /\ Len(result[1]) = 2
    /\ result[1][1].title # result[1][2].title
    /\ IsLetItBe(result[1][1])
    /\ IsLetItBe(result[1][2])
    /\ DurationsWithinFive(result[1][1], result[1][2])
    /\ \E h \in 1..Len(files) : IsHelp(files[h]) /\ GroupOf(files[h]) = 0

\* which records are grouped with which: the groups as sets of file paths
Membership(gs) ==
    { { gs[k][m].file_path : m \in 1..Len(gs[k]) } : k \in 1..Len(gs) }

\* among the records of the file list the match is symmetric and transitive
MatchIsEquivalence ==
    \A r1, r2 \in Range(files) :
        /\ ClaimMatch(r1, r2) <=> ClaimMatch(r2, r1)
        /\ ClaimMatch(r1, r2) => \A r3 \in Range(files) : ClaimMatch(r2, r3) => ClaimMatch(r1, r3)

\* C25: the groups of find_duplicates_by_metadata depend on the order of the
\* records (C25_Witness: the same records in two orders, grouped differently),
\* and they do so only because a member is compared with the anchor alone:
\* whenever two orders of identified records give different memberships, the
\* match among the records is not an equivalence.
C25_OrderMattersOnlyWithoutEquivalence ==
    (/\ op = "reordered"
     /\ \A i \in 1..Len(files) : HasId(files[i])
     /\ Membership(result) # Membership(result2)) => ~MatchIsEquivalence

\* the same three records were grouped all together in one order and as a pair
\* in the other
C25_Witness ==
    /\ op = "reordered"
    /\ fields = DefaultCompareFields
    /\ Len(files) = 3
    /\ Membership(result) # Membership(result2)
    /\ \E g \in Membership(result) : Cardinality(g) = 3
    /\ \E g \in Membership(result2) : Cardinality(g) = 2

\* C9: the groups of find_duplicates_by_metadata are pairwise disjoint: a record
\* assigned to a group, as anchor or as match, is in no other group and in its
\* own group once; a record without match gives no group (no group of one).
C9_MetadataGroupsDisjoint ==
    op = "metadata" =>
        /\ \A i \in 1..Len(files) : Occurrences(files[i]) <= 1
        /\ \A k \in 1..Len(result) : Len(result[k]) > 1

\* a record matched by an earlier anchor was not reconsidered: a later record
\* that matches it, but not its anchor, is in no group
C9_Witness ==
    /\ op = "metadata"
    /\ \E i, j, l \in 1..Len(files) :
          /\ i < j /\ j < l
          /\ AnchorOf(j) = i
          /\ ClaimMatch(files[j], files[l])
          /\ ~ClaimMatch(files[i], files[l])
          /\ GroupOf(files[l]) = 0

\* the groups of the strategies whose flag is set, in the order metadata, hash, size
EnabledGroups ==
    (IF flags[1] THEN find_duplicates_by_metadata(files, DefaultCompareFields) ELSE <<>>)
    \o (IF flags[2] THEN find_duplicates_by_hash(files) ELSE <<>>)
    \o (IF flags[3] THEN find_duplicates_by_size_and_duration(files) ELSE <<>>)

\* the ids reachable from those of S through groups of gs that share an id
RECURSIVE IdReach(_, _)
IdReach(S, gs) ==
    LET T == S \cup UNION { IdSet(gs[k]) : k \in { n \in 1..Len(gs) : IdSet(gs[n]) \cap S # {} } }
    IN  IF T = S THEN S ELSE IdReach(T, gs)

\* C10: find_duplicates_combined groups two identified records if and only if
\* the groups of the strategies whose flag is set link them (a chain of groups,
\* consecutive ones sharing an id), and its groups hold records of the input
\* only, each once.
C10_CombinedIsMergeOfEnabled ==
    op = "combined" =>
        /\ LET enabled == EnabledGroups
           IN  \A i \in { n \in 1..Len(files) : HasId(files[n]) } :
                   LET reach == IdReach({files[i].id}, enabled)
                   IN  \A j \in { n \in 1..Len(files) : HasId(files[n]) } :
                           i # j => (SameGroup(files[i], files[j]) <=> files[j].id \in reach)
        /\ \A i \in 1..Len(files) : Occurrences(files[i]) <= 1
        /\ \A k \in 1..Len(result) : Range(result[k]) \subseteq Range(files)

\* metadata groups ids {1,2}, hash groups ids {2,3}, the result is one group {1,2,3}
C10_Witness ==
    /\ op = "combined"
    /\ flags = DefaultFlags
    /\ \E g \in Range(find_duplicates_by_metadata(files, DefaultCompareFields)) :
          IdSet(g) = {1, 2}
    /\ \E h \in Range(find_duplicates_by_hash(files)) : IdSet(h) = {2, 3}
    /\ Len(result) = 1
    /\ IdSet(result[1]) = {1, 2, 3}

\* C30: on records that all have an id of their own, find_duplicates_combined
\* with the hash strategy alone returns what find_duplicates_by_hash returns:
\* the same groups, in the same order, with the same members in the same order.
C30_HashOnlyIsHash ==
    (/\ op = "combined"
     /\ ~raised
     /\ flags = <<FALSE, TRUE, FALSE>>
     /\ \A i \in 1..Len(files) : HasId(files[i])) =>
        result = find_duplicates_by_hash(files)

\* two hash groups of two records each, the records of the two interleaved
C30_Witness ==
    /\ op = "combined"
    /\ flags = <<FALSE, TRUE, FALSE>>
    /\ \A i \in 1..Len(files) : HasId(files[i])
    /\ Len(result) = 2
    /\ Len(result[1]) = 2
    /\ Len(result[2]) = 2
    /\ result[1][2].file_path > result[2][1].file_path

(***************************************************************************)
(* Vocabulary of the ranking and statistics claims.                        *)
(***************************************************************************)
\* bitrate and file_size as the record gives them, 0 when it gives none
Bitrate(r) == IF "bitrate" \in DOMAIN r THEN r.bitrate ELSE 0

Size(r) == IF "file_size" \in DOMAIN r THEN r.file_size ELSE 0

\* the (bitrate, file_size) tuple of r1 is at least that of r2: bitrate first,
\* file_size as tie-break
RanksAtLeast(r1, r2) ==
    \/ Bitrate(r1) > Bitrate(r2)
    \/ (Bitrate(r1) = Bitrate(r2) /\ Size(r1) >= Size(r2))

\* C11: for a non-empty group, filter_duplicates_by_quality(group, True) keeps
\* exactly one element, a member whose (bitrate, file_size) tuple is the maximum
\* of the group, and removes len(group) - 1 elements.
C11_KeepsMaximum ==
    (op = "filter" /\ keep_arg /\ group_arg # <<>>) =>
        /\ Len(result[1]) = 1
        /\ Contains(group_arg, result[1][1])
        /\ \A k \in 1..Len(group_arg) : RanksAtLeast(result[1][1], group_arg[k])
        /\ Len(result[2]) = Len(group_arg) - 1

\* the kept file of a group of three beats a larger file by its bitrate and a
\* file of its own bitrate by its size
C11_Witness ==
    /\ op = "filter"
    /\ keep_arg
    /\ Len(group_arg) = 3
    /\ \E k \in 1..3 :
          /\ Bitrate(group_arg[k]) < Bitrate(result[1][1])
          /\ Size(group_arg[k]) > Size(result[1][1])
    /\ \E k \in 1..3 :
          /\ Bitrate(group_arg[k]) = Bitrate(result[1][1])
          /\ Size(group_arg[k]) < Size(result[1][1])

\* C12: for a non-empty group, filter_duplicates_by_quality(group, False) sorts
\* ascending by (bitrate, file_size): the one kept element has the minimum tuple
\* of the group and the remove list is the rest, in ascending order.
C12_KeepsMinimum ==
    (op = "filter" /\ ~keep_arg /\ group_arg # <<>>) =>
        /\ Len(result[1]) = 1
        /\ Contains(group_arg, result[1][1])
        /\ \A k \in 1..Len(group_arg) : RanksAtLeast(group_arg[k], result[1][1])
        /\ Len(result[2]) = Len(group_arg) - 1
        /\ Range(result[1]) \cup Range(result[2]) = Range(group_arg)
        /\ \A m, n \in 1..Len(result[2]) :
              m < n => RanksAtLeast(result[2][n], result[2][m])

\* the kept file of a group of three is not its first, and the files removed
\* differ in rank
C12_Witness ==
    /\ op = "filter"
    /\ ~keep_arg
    /\ Len(group_arg) = 3
    /\ result[1][1] # group_arg[1]
    /\ ~RanksAtLeast(result[2][1], result[2][2])

\* the remove lists of the groups, one after the other
RECURSIVE RemoveLists(_)
RemoveLists(gs) ==
    IF gs = <<>> THEN <<>>
    ELSE filter_duplicates_by_quality(Head(gs), keep_arg)[2] \o RemoveLists(Tail(gs))

\* the element filter_duplicates_by_quality keeps of a non-empty group
KeptOf(g) == filter_duplicates_by_quality(g, keep_arg)[1][1]

\* every member of every non-empty group but its kept element is in the result,
\* and no kept element is
AllButKeptSelected ==
    \A k \in { n \in 1..Len(groups) : groups[n] # <<>> } :
        /\ \A m \in 1..Len(groups[k]) :
              groups[k][m] # KeptOf(groups[k]) => Contains(result, groups[k][m])
        /\ ~Contains(result, KeptOf(groups[k]))

\* no record is in two groups of the list
GroupsDisjoint ==
    \A k, l \in 1..Len(groups) : k # l => Range(groups[k]) \cap Range(groups[l]) = {}

RECURSIVE TotalSize(_)
TotalSize(g) == IF g = <<>> THEN 0 ELSE Size(Head(g)) + TotalSize(Tail(g))

LargestSize(g) == CHOOSE z \in { Size(g[k]) : k \in 1..Len(g) } :
                      \A k \in 1..Len(g) : Size(g[k]) <= z

\* the sizes of all members of a group but one largest member
AllButLargest(g) == IF g = <<>> THEN 0 ELSE TotalSize(g) - LargestSize(g)

RECURSIVE WastedSpace(_)
WastedSpace(gs) == IF gs = <<>> THEN 0 ELSE AllButLargest(Head(gs)) + WastedSpace(Tail(gs))

\* one group of three files of 10 MB, 5 MB and 3 MB, in any order
TenFiveThree ==
    /\ Len(groups) = 1
    /\ Len(groups[1]) = 3
    /\ { Size(groups[1][k]) : k \in 1..3 } = {10 * 1024 * 1024, 5 * 1024 * 1024, 3 * 1024 * 1024}

\* C14: wasted_space_bytes is the sum, over all groups, of the file_size of
\* every member except one largest member of the group; for one group of sizes
\* 10 MB, 5 MB and 3 MB it is 8*1024*1024 and total_files is 2.
C14_WastedSpace ==
    op = "statistics" =>
        /\ result.wasted_space_bytes = WastedSpace(groups)
        /\ TenFiveThree =>
              /\ result.wasted_space_bytes = 8 * 1024 * 1024
              /\ result.total_files = 2

\* the group of 3 MB, 10 MB and 5 MB, its largest file in the middle
C14_Witness ==
    /\ op = "statistics"
    /\ TenFiveThree
    /\ Size(groups[1][2]) = 10 * 1024 * 1024
    /\ result.wasted_space_bytes = 8 * 1024 * 1024

RECURSIVE TotalMembers(_)
TotalMembers(gs) == IF gs = <<>> THEN 0 ELSE Len(Head(gs)) + TotalMembers(Tail(gs))

\* C15: total_groups is the number of groups, total_duplicates the sum of the
\* group sizes, total_files their difference; when no group is empty,
\* total_files is the number of records auto_select_duplicates_for_removal
\* returns for the same groups.
C15_RedundantFiles ==
    op = "statistics" =>
        /\ result.total_groups = Len(groups)
        /\ result.total_duplicates = TotalMembers(groups)
        /\ result.total_files = result.total_duplicates - result.total_groups
        /\ (\A k \in 1..Len(groups) : groups[k] # <<>>) =>
              \A keep_highest_quality \in BOOLEAN :
                  result.total_files =
                      Len(auto_select_duplicates_for_removal(groups, keep_highest_quality))

\* two groups of two files: four duplicates, two of them redundant
C15_Witness ==
    /\ op = "statistics"
    /\ Len(groups) = 2
    /\ Len(groups[1]) = 2
    /\ Len(groups[2]) = 2
    /\ result.total_duplicates = 4
    /\ result.total_files = 2

\* C16: on empty input every operation returns an empty result and raises
\* nothing: the strategies, the combined strategy and the merger return [],
\* auto_select_duplicates_for_removal returns [], filter_duplicates_by_quality
\* returns ([], []), and get_duplicate_statistics returns zero counts and zero
\* wasted space.
C16_EmptyInEmptyOut ==
    /\ (op \in DetectionOps /\ files = <<>>) => (~raised /\ result = <<>>)
    /\ (op \in {"merge", "select"} /\ groups = <<>>) => (~raised /\ result = <<>>)
    /\ (op = "filter" /\ group_arg = <<>>) => (~raised /\ result = << <<>>, <<>> >>)
    /\ (op = "statistics" /\ groups = <<>>) =>
          /\ ~raised
          /\ result.total_groups = 0
          /\ result.total_duplicates = 0
          /\ result.total_files = 0
          /\ result.wasted_space_bytes = 0
          /\ result.wasted_space_mb[1] = 0

\* the statistics of an empty group list were computed
C16_Witness ==
    /\ op = "statistics"
    /\ groups = <<>>
    /\ result.total_groups = 0
    /\ result.wasted_space_bytes = 0

\* the file_size of a record of the group that no record of the group outranks
\* by (bitrate, file_size)
TopRankedSize(g) ==
    Size(CHOOSE r \in Range(g) : \A other \in Range(g) : RanksAtLeast(r, other))

\* in every group a record of the highest (bitrate, file_size) is a largest one
TopRankedIsLargest(gs) ==
    \A k \in 1..Len(gs) : TopRankedSize(gs[k]) = LargestSize(gs[k])

\* C29: for every list of non-empty groups, wasted_space_bytes is at most the
\* total file_size of the records auto_select_duplicates_for_removal selects
\* when it keeps the highest quality, and equals it exactly when in every group
\* the record of the highest (bitrate, file_size) is also a largest record.
C29_WastedAtMostSelected ==
    (/\ op = "statistics"
     /\ ~raised
     /\ \A k \in 1..Len(groups) : groups[k] # <<>>) =>
        LET selected == TotalSize(auto_select_duplicates_for_removal(groups, TRUE))
        IN  /\ result.wasted_space_bytes <= selected
            /\ result.wasted_space_bytes = selected <=> TopRankedIsLargest(groups)

\* a group whose record of the highest bitrate is smaller than another: more
\* bytes are selected for removal than are counted as wasted
C29_Witness ==
    /\ op = "statistics"
    /\ Len(groups) >= 1
    /\ \A k \in 1..Len(groups) : groups[k] # <<>>
    /\ ~TopRankedIsLargest(groups)
    /\ result.wasted_space_bytes > 0
    /\ result.wasted_space_bytes
         < TotalSize(auto_select_duplicates_for_removal(groups, TRUE))

(***************************************************************************)
(* The size and duration strategy.                                         *)
(***************************************************************************)
\* duration (in half seconds) as the record gives it, 0 when it gives none
DurationOf(r) == IF "duration" \in DOMAIN r THEN r.duration ELSE 0

\* the whole second nearest to a duration of d half seconds; of the two whole
\* seconds equally near to an exact half, the even one
NearestSecond(d) ==
    CHOOSE n \in 0..d :
        /\ 2 * n - d \in {-1, 0, 1}
        /\ (2 * n # d) => n % 2 = 0

\* C18: find_duplicates_by_size_and_duration groups records by the key
\* (file_size, duration rounded to the nearest whole second): two records are in
\* one returned group iff their keys are equal, no record is in two groups, and
\* only buckets of 2 or more records are returned.
C18_SizeDurationKey ==
    op = "size" =>
        /\ \A i, j \in 1..Len(files) :
              i # j => (SameGroup(files[i], files[j])
                           <=> (/\ Size(files[i]) = Size(files[j])
                                /\ NearestSecond(DurationOf(files[i]))
                                       = NearestSecond(DurationOf(files[j]))))
        /\ \A i \in 1..Len(files) : Occurrences(files[i]) <= 1
        /\ \A k \in 1..Len(result) :
              /\ Len(result[k]) >= 2
              /\ Range(result[k]) \subseteq Range(files)

\* records of 1.5 s and 2.5 s, both 2 s when rounded, share a group that a
\* record of 0.5 s and the same size is not in
C18_Witness ==
    /\ op = "size"
    /\ Len(files) = 3
    /\ \E i, j, l \in 1..3 :
          /\ DurationOf(files[i]) = 3
          /\ DurationOf(files[j]) = 5
          /\ DurationOf(files[l]) = 1
          /\ Size(files[i]) = Size(files[l])
          /\ SameGroup(files[i], files[j])
          /\ GroupOf(files[l]) = 0

C17_NothingRaises == ~raised

(***************************************************************************)
(* The similarity score.                                                   *)
(***************************************************************************)
\* two scores, kept as fractions, are the same number
SameScore(x, y) == x[1] * y[2] = y[1] * x[2]

Absent(s) == s = <<>> \/ s = NoneText

\* C19: calculate_similarity returns a value in [0, 1]; 0.0 when an input is
\* empty or absent; 1.0 for similarity(s, s) with s non-empty; and the score of
\* the lower-cased forms of its inputs.
C19_SimilarityContract ==
    op = "similarity" =>
        /\ result[2] > 0
        /\ 0 <= result[1]
        /\ result[1] <= result[2]
        /\ (Absent(string1) \/ Absent(string2)) => result[1] = 0
        /\ (string1 = string2 /\ ~Absent(string1)) => result[1] = result[2]
        /\ (~Absent(string1) /\ ~Absent(string2)) =>
              SameScore(result, calculate_similarity(lower(string1), lower(string2)))

\* two strings of three characters that differ by the case of one letter score 1.0
C19_Witness ==
    /\ op = "similarity"
    /\ Len(string1) = 3
    /\ string1 # string2
    /\ lower(string1) = string2
    /\ result[1] = result[2]

\* C20: calculate_similarity is symmetric: similarity(a, b) = similarity(b, a).
C20_Symmetric ==
    op = "similarity" => SameScore(result, calculate_similarity(string2, string1))

====
